---- MODULE Spec2Model ----
(***************************************************************************)
(* A model of normalize_report (src/main.py): the reconciliation of the    *)
(* raw SmartCredit endpoint documents into one canonical report; of main() *)
(* (src/main.py), which fetches the documents and exports the report; and  *)
(* of normalize_report of src/main_fixed.py.                               *)
(*                                                                         *)
(* JSON / Python values are tagged records:                                *)
(*   [k |-> "null"]                 None / null                            *)
(*   [k |-> "str", s |-> chars]     a string, as a sequence of characters  *)
(*   [k |-> "int", n |-> n]         an integer                             *)
(*   [k |-> "bigint", e10 |-> e]    the integer 10^e (beyond machine ints) *)
(*   [k |-> "float", n |-> n, e10 |-> e]   the float n * 10^e              *)
(*   [k |-> "arr", a |-> seq]       a list                                 *)
(*   [k |-> "obj", f |-> record]    a dict                                 *)
(*   [k |-> "raise", e |-> name]    an exception propagating out of an     *)
(*                                  expression                             *)
(***************************************************************************)
EXTENDS Integers, Sequences, FiniteSets, TLC

VARIABLES raw, scores, normalized, cr_json, raw_report_str, borrower,
          true_link, pc, exc, call, first, given,
          at, aggregated, browser, landed, requested, files, fixed

vars == <<raw, scores, normalized, cr_json, raw_report_str, borrower,
          true_link, pc, exc, call, first, given,
          at, aggregated, browser, landed, requested, files, fixed>>

\* the variables of main() that a call of normalize_report leaves alone
main_vars == <<at, aggregated, browser, landed, requested, files>>

----------------------------------------------------------------------------
(* Values *)

JNull == [k |-> "null"]
JStr(cs) == [k |-> "str", s |-> cs]
JInt(n) == [k |-> "int", n |-> n]
JBig(e) == [k |-> "bigint", e10 |-> e]
JFloat(n) == [k |-> "float", n |-> n, e10 |-> 0]
JArr(a) == [k |-> "arr", a |-> a]
JObj(f) == [k |-> "obj", f |-> f]
Raise(e) == [k |-> "raise", e |-> e]

\* {} : the empty dict, and [] : the empty list
EmptyDict == JObj(<<>>)
EmptyList == JArr(<<>>)

\* a string holding a JSON text: json.loads gives back the document doc
JsonText(doc) == [k |-> "str", s |-> <<"{", "}">>, json |-> doc]

IsRaise(v) == v.k = "raise"
IsDict(v) == v.k = "obj"
IsList(v) == v.k = "arr"
IsStr(v) == v.k = "str"

\* the first exception among the values of a sequence, evaluated left to right
RECURSIVE FirstRaise(_)
FirstRaise(vs) ==
    IF vs = <<>> THEN JNull
    ELSE IF IsRaise(Head(vs)) THEN Head(vs) ELSE FirstRaise(Tail(vs))

AnyRaise(vs) == \E i \in 1..Len(vs) : IsRaise(vs[i])

\* Python truth value
Truthy(v) ==
    CASE v.k = "null" -> FALSE
      [] v.k = "str" -> v.s # <<>>
      [] v.k = "int" -> v.n # 0
      [] v.k = "bigint" -> TRUE
      [] v.k = "float" -> v.n # 0
      [] v.k = "arr" -> v.a # <<>>
      [] v.k = "obj" -> DOMAIN v.f # {}

\* v.get(key, d): AttributeError unless v is a dict
GetD(v, key, d) ==
    IF IsRaise(v) THEN v
    ELSE IF IsDict(v) THEN (IF key \in DOMAIN v.f THEN v.f[key] ELSE d)
    ELSE Raise("AttributeError")

\* v.get(key)
Get(v, key) == GetD(v, key, JNull)

\* a or b : b is evaluated only when a is falsy
Or(a, b) == IF IsRaise(a) THEN a ELSE IF Truthy(a) THEN a ELSE b

\* if isinstance(v, dict): v = [v]
WrapDict(v) == IF IsDict(v) THEN JArr(<<v>>) ELSE v

\* the elements a for-loop over v visits: TypeError for a non-iterable
Iter(v) ==
    CASE IsRaise(v) -> v
      [] v.k = "arr" -> v
      [] v.k = "str" -> JArr([i \in 1..Len(v.s) |-> JStr(<<v.s[i]>>)])
      [] v.k \in {"null", "int", "bigint", "float"} -> Raise("TypeError")

----------------------------------------------------------------------------
(* Strings and numbers *)

Digits == <<"0", "1", "2", "3", "4", "5", "6", "7", "8", "9">>

IsDigit(c) == \E i \in 1..10 : Digits[i] = c

DigitVal(c) == (CHOOSE i \in 1..10 : Digits[i] = c) - 1

IsSpace(c) == c = " "

RECURSIVE lstrip(_)
lstrip(cs) == IF cs # <<>> /\ IsSpace(Head(cs)) THEN lstrip(Tail(cs)) ELSE cs

RECURSIVE rstrip(_)
rstrip(cs) ==
    IF cs # <<>> /\ IsSpace(cs[Len(cs)])
    THEN rstrip(SubSeq(cs, 1, Len(cs) - 1)) ELSE cs

\* str.strip()
strip(cs) == rstrip(lstrip(cs))

RECURSIVE DecimalDigits(_)
DecimalDigits(n) ==
    IF n < 10 THEN <<Digits[n + 1]>>
    ELSE DecimalDigits(n \div 10) \o <<Digits[(n % 10) + 1]>>

\* str(val) of a scalar; the repr of a list or dict is not modelled (no input
\* draws a container where a scalar is read)
str(v) ==
    CASE v.k = "str" -> v.s
      [] v.k = "int" ->
            IF v.n < 0 THEN <<"-">> \o DecimalDigits(0 - v.n) ELSE DecimalDigits(v.n)
      [] v.k = "bigint" -> <<"1">> \o [i \in 1..v.e10 |-> "0"]
      [] v.k = "float" ->
            (IF v.n < 0 THEN <<"-">> \o DecimalDigits(0 - v.n) ELSE DecimalDigits(v.n))
            \o <<".", "0">>
      [] v.k = "null" -> <<"N", "o", "n", "e">>

RECURSIVE DecimalValue(_)
DecimalValue(cs) ==
    IF cs = <<>> THEN 0
    ELSE 10 * DecimalValue(SubSeq(cs, 1, Len(cs) - 1)) + DigitVal(cs[Len(cs)])

AllDigits(cs) == cs # <<>> /\ \A i \in 1..Len(cs) : IsDigit(cs[i])

\* sys.float_info.max_10_exp of the IEEE double float() converts to
DBL_MAX_10_EXP == 308

\* float(val): the strings of the model hold digits, spaces and letters only
\* (no sign, point, exponent, underscore, "inf" or "nan")
float(v) ==
    CASE v.k = "str" ->
            IF AllDigits(strip(v.s)) THEN JFloat(DecimalValue(strip(v.s)))
            ELSE Raise("ValueError")
      [] v.k = "int" -> JFloat(v.n)
      [] v.k = "float" -> v
      [] v.k = "bigint" ->
            IF v.e10 > DBL_MAX_10_EXP THEN Raise("OverflowError")
            ELSE [k |-> "float", n |-> 1, e10 |-> v.e10]
      [] v.k \in {"null", "arr", "obj"} -> Raise("TypeError")

\* safe_number: TypeError and ValueError are caught, nothing else
safe_number(val) ==
    IF IsRaise(val) THEN val
    ELSE IF val = JNull \/ val = JStr(<<>>) THEN JNull
    ELSE LET r == float(val) IN
         IF IsRaise(r) /\ r.e \in {"TypeError", "ValueError"} THEN JNull ELSE r

safe_string(val) ==
    IF IsRaise(val) THEN val
    ELSE IF val = JNull THEN JNull
    ELSE IF strip(str(val)) # <<>> THEN JStr(strip(str(val))) ELSE JNull

\* json.loads(s): a JSON text, a bare number, or a decode error
json_loads(v) ==
    IF ~IsStr(v) THEN Raise("TypeError")
    ELSE IF "json" \in DOMAIN v THEN v.json
    ELSE LET t == strip(v.s) IN
         IF AllDigits(t) /\ (Len(t) = 1 \/ t[1] # "0") THEN JInt(DecimalValue(t))
         ELSE Raise("JSONDecodeError")

----------------------------------------------------------------------------
(* String helpers *)

\* sub in cs
Contains(cs, sub) ==
    \E i \in 0..(Len(cs) - Len(sub)) : SubSeq(cs, i + 1, i + Len(sub)) = sub

\* sep.join(parts): parts is a sequence of character sequences
RECURSIVE JoinChars(_, _)
JoinChars(sep, parts) ==
    IF parts = <<>> THEN <<>>
    ELSE IF Len(parts) = 1 THEN parts[1]
    ELSE parts[1] \o sep \o JoinChars(sep, Tail(parts))

\* [p for p in parts if p]
RECURSIVE KeepTruthy(_)
KeepTruthy(vs) ==
    IF vs = <<>> THEN <<>>
    ELSE (IF Truthy(Head(vs)) THEN <<Head(vs)>> ELSE <<>>) \o KeepTruthy(Tail(vs))

\* sep.join(vs) on values: TypeError when an item is not a string
Join(sep, vs) ==
    IF AnyRaise(vs) THEN FirstRaise(vs)
    ELSE IF \E i \in 1..Len(vs) : ~IsStr(vs[i]) THEN Raise("TypeError")
    ELSE JStr(JoinChars(sep, [i \in 1..Len(vs) |-> vs[i].s]))

\* v.strip() as a method call: AttributeError unless v is a string
StripM(v) ==
    IF IsRaise(v) THEN v
    ELSE IF IsStr(v) THEN JStr(strip(v.s)) ELSE Raise("AttributeError")

\* v[0]
Index0(v) ==
    CASE IsRaise(v) -> v
      [] v.k = "arr" -> IF v.a = <<>> THEN Raise("IndexError") ELSE v.a[1]
      [] v.k = "str" -> IF v.s = <<>> THEN Raise("IndexError") ELSE JStr(<<v.s[1]>>)
      [] v.k = "obj" -> Raise("KeyError")
      [] v.k \in {"null", "int", "bigint", "float"} -> Raise("TypeError")

\* the string literals of the source
MergeCreditReports ==
    <<"M", "e", "r", "g", "e", "C", "r", "e", "d", "i", "t",
      "R", "e", "p", "o", "r", "t", "s">>
Primary == <<"P", "r", "i", "m", "a", "r", "y">>
TUC == <<"T", "U", "C">>
EQF == <<"E", "Q", "F">>
EXP == <<"E", "X", "P">>
ReportV6 == <<"R", "e", "p", "o", "r", "t", "V", "6">>
TransUnion == <<"T", "r", "a", "n", "s", "U", "n", "i", "o", "n">>
Equifax == <<"E", "q", "u", "i", "f", "a", "x">>
Experian == <<"E", "x", "p", "e", "r", "i", "a", "n">>

----------------------------------------------------------------------------
(* Report tree navigator: src/main.py 78-126 *)

\* for comp in bundle_component_list: the first component typed
\* MergeCreditReports sets true_link, then borrower
RECURSIVE ScanComponents(_, _, _)
ScanComponents(comps, tl, bw) ==
    IF comps = <<>> THEN [true_link |-> tl, borrower |-> bw, exc |-> JNull]
    ELSE LET comp == Head(comps)
             ty == Get(comp, "Type")
         IN IF IsRaise(ty) THEN [true_link |-> tl, borrower |-> bw, exc |-> ty]
            ELSE IF ty = JStr(MergeCreditReports)
            THEN LET t == GetD(comp, "TrueLinkCreditReportType", EmptyDict)
                     b == GetD(t, "Borrower", EmptyDict)
                 IN IF IsRaise(b)
                    THEN [true_link |-> t, borrower |-> bw, exc |-> b]
                    ELSE [true_link |-> t, borrower |-> b, exc |-> JNull]
            ELSE ScanComponents(Tail(comps), tl, bw)

\* BundleComponents.BundleComponent of doc, searched for the merged report
LocateBorrower(doc, tl, bw) ==
    LET bundle_components == GetD(doc, "BundleComponents", EmptyDict) IN
    IF IsRaise(bundle_components)
    THEN [true_link |-> tl, borrower |-> bw, exc |-> bundle_components]
    ELSE IF ~IsDict(bundle_components)
    THEN [true_link |-> tl, borrower |-> bw, exc |-> JNull]
    ELSE LET bundle_component_list ==
                 Iter(WrapDict(GetD(bundle_components, "BundleComponent", EmptyList)))
         IN IF IsRaise(bundle_component_list)
            THEN [true_link |-> tl, borrower |-> bw, exc |-> bundle_component_list]
            ELSE ScanComponents(bundle_component_list.a, tl, bw)

\* a variant of line 78 that subscripts: raw["credit_report_json"]
CrJsonSubscript(r) == GetD(r, "credit_report_json", Raise("KeyError"))

\* raw.get("credit_report_json", {})
CrJson(r) == GetD(r, "credit_report_json", EmptyDict)

\* lines 83-107: the rawReport payload is parsed and searched; JSONDecodeError,
\* AttributeError and TypeError are caught, what was assigned before stays
ParseRawReport(cr) ==
    IF ~IsDict(cr)
    THEN [raw_report_str |-> JNull, true_link |-> JNull, borrower |-> JNull]
    ELSE LET rs == Get(cr, "rawReport") IN
         IF ~Truthy(rs)
         THEN [raw_report_str |-> rs, true_link |-> JNull, borrower |-> JNull]
         ELSE LET raw_report_data == json_loads(rs)
                  r == IF IsRaise(raw_report_data)
                       THEN [true_link |-> JNull, borrower |-> JNull]
                       ELSE LocateBorrower(raw_report_data, JNull, JNull)
              IN [raw_report_str |-> rs, true_link |-> r.true_link,
                  borrower |-> r.borrower]

\* a variant of lines 110-125 that searches the outer document whether or not
\* rawReport gave a borrower
FallbackBorrowerAlways(cr, tl, bw) ==
    IF IsDict(cr)
    THEN LocateBorrower(cr, tl, bw)
    ELSE [true_link |-> tl, borrower |-> bw, exc |-> JNull]

\* lines 110-125: the outer document is searched when no borrower was found;
\* nothing is caught here
FallbackBorrower(cr, tl, bw) ==
    IF IsDict(cr) /\ ~Truthy(bw)
    THEN LocateBorrower(cr, tl, bw)
    ELSE [true_link |-> tl, borrower |-> bw, exc |-> JNull]

----------------------------------------------------------------------------
(* Personal info: src/main.py 127-278 *)

\* " ".join([p for p in name_parts if p]).strip()
JoinName(parts) ==
    IF AnyRaise(parts) THEN FirstRaise(parts)
    ELSE StripM(Join(<<" ">>, KeepTruthy(parts)))

\* lines 146-152: the name composed from one element of the Name array
ComposeName(primary_name) ==
    LET name_data == GetD(primary_name, "Name", EmptyDict)
        first_ == GetD(name_data, "first", JStr(<<>>))
        middle == GetD(name_data, "middle", JStr(<<>>))
        last == GetD(name_data, "last", JStr(<<>>))
    IN IF AnyRaise(<<first_, middle, last>>) THEN FirstRaise(<<first_, middle, last>>)
       ELSE JoinName(IF Truthy(middle) THEN <<first_, middle, last>>
                     ELSE <<first_, last>>)

\* lines 136-140: the first element whose NameType.abbreviation is "Primary"
RECURSIVE FindPrimary(_)
FindPrimary(names) ==
    IF names = <<>> THEN JNull
    ELSE LET name_type == GetD(Head(names), "NameType", EmptyDict)
             abbreviation == Get(name_type, "abbreviation")
         IN IF IsRaise(abbreviation) THEN abbreviation
            ELSE IF abbreviation = JStr(Primary) THEN Head(names)
            ELSE FindPrimary(Tail(names))

\* lines 157-165 and 178-185: the name of a name object, all parts filtered
ComposeAllParts(name_data) ==
    LET first_ == GetD(name_data, "first", JStr(<<>>))
        middle == GetD(name_data, "middle", JStr(<<>>))
        last == GetD(name_data, "last", JStr(<<>>))
    IN JoinName(<<first_, middle, last>>)

\* lines 133-152: the Name array is read only when it is a non-empty list
NameFromArray(names, name) ==
    IF ~(IsList(names) /\ Truthy(names)) THEN name
    ELSE LET found == FindPrimary(names.a)
             primary_name == IF IsRaise(found) THEN found
                             ELSE IF ~Truthy(found) THEN names.a[1] ELSE found
         IN IF IsRaise(primary_name) THEN primary_name
            ELSE IF Truthy(primary_name) THEN ComposeName(primary_name)
            ELSE name

\* lines 155-165
NameFromFirstObject(names, name) ==
    IF IsRaise(name) THEN name
    ELSE IF ~(~Truthy(name) /\ IsList(names) /\ Truthy(names)) THEN name
    ELSE LET first_name_obj == names.a[1] IN
         IF ~IsDict(first_name_obj) THEN name
         ELSE LET name_data == GetD(first_name_obj, "Name", EmptyDict) IN
              IF Truthy(name_data) THEN ComposeAllParts(name_data) ELSE name

\* lines 168-172
NameFromFields(bw, name) ==
    IF IsRaise(name) THEN name
    ELSE IF Truthy(name) THEN name
    ELSE LET first_name == Or(Get(bw, "firstName"), Get(bw, "FirstName"))
             last_name == Or(Get(bw, "lastName"), Get(bw, "LastName"))
         IN IF AnyRaise(<<first_name, last_name>>)
            THEN FirstRaise(<<first_name, last_name>>)
            ELSE IF Truthy(first_name) /\ Truthy(last_name)
            THEN JStr(str(first_name) \o <<" ">> \o str(last_name))
            ELSE name

\* lines 175-186: a BorrowerName that is a list of name objects
RECURSIVE NameFromList(_, _)
NameFromList(items, name) ==
    IF items = <<>> THEN name
    ELSE IF IsDict(Head(items))
    THEN LET name_data == GetD(Head(items), "Name", EmptyDict) IN
         IF Truthy(name_data) THEN ComposeAllParts(name_data)
         ELSE NameFromList(Tail(items), name)
    ELSE NameFromList(Tail(items), name)

\* lines 129-186
ExtractName(bw) ==
    LET name0 == Get(bw, "BorrowerName") IN
    IF IsRaise(name0) THEN name0
    ELSE LET name3 ==
                 IF Truthy(name0) THEN name0
                 ELSE LET names == GetD(bw, "Name", EmptyList)
                          name1 == NameFromArray(names, name0)
                          name2 == NameFromFirstObject(names, name1)
                      IN NameFromFields(bw, name2)
         IN IF IsRaise(name3) THEN name3
            ELSE IF IsList(name3) THEN NameFromList(name3.a, name3)
            ELSE name3

\* lines 189-191
ExtractSsn(bw) ==
    Or(Get(bw, "SocialSecurityNumber"),
       Or(Get(bw, "ssn"), Get(Or(Get(bw, "SocialPartition"), EmptyDict), "Social")))

\* lines 205-226: one address string from a CreditAddress
ComposeAddress(credit_addr) ==
    LET unparsed == Get(credit_addr, "unparsedStreet")
        street ==
            IF IsRaise(unparsed) THEN unparsed
            ELSE IF Truthy(unparsed)
            THEN StripM(GetD(credit_addr, "unparsedStreet", JStr(<<>>)))
            ELSE LET ps == <<GetD(credit_addr, "houseNumber", JStr(<<>>)),
                             GetD(credit_addr, "direction", JStr(<<>>)),
                             GetD(credit_addr, "streetName", JStr(<<>>)),
                             GetD(credit_addr, "streetType", JStr(<<>>))>>
                 IN Join(<<" ">>, KeepTruthy(ps))
        city == StripM(GetD(credit_addr, "city", JStr(<<>>)))
        state == StripM(GetD(credit_addr, "stateCode", JStr(<<>>)))
        postal == StripM(GetD(credit_addr, "postalCode", JStr(<<>>)))
        all == <<street, city, state, postal>>
    IN IF AnyRaise(all) THEN FirstRaise(all)
       ELSE IF KeepTruthy(all) # <<>> THEN Join(<<",", " ">>, KeepTruthy(all))
       ELSE JNull

\* lines 194-226
ExtractAddress(bw) ==
    LET addresses == WrapDict(GetD(bw, "BorrowerAddress", EmptyList)) IN
    IF IsRaise(addresses) THEN addresses
    ELSE IF ~Truthy(addresses) THEN JNull
    ELSE ComposeAddress(GetD(Index0(addresses), "CreditAddress", EmptyDict))

\* lines 229-235
ExtractBirthDate(bw) ==
    LET birth_dates == WrapDict(GetD(bw, "Birth", EmptyList)) IN
    IF IsRaise(birth_dates) THEN birth_dates
    ELSE IF ~Truthy(birth_dates) THEN JNull
    ELSE Get(Index0(birth_dates), "date")

\* str.strip(', ')
RECURSIVE lstrip_cs(_)
lstrip_cs(cs) ==
    IF cs # <<>> /\ Head(cs) \in {",", " "} THEN lstrip_cs(Tail(cs)) ELSE cs

RECURSIVE rstrip_cs(_)
rstrip_cs(cs) ==
    IF cs # <<>> /\ cs[Len(cs)] \in {",", " "}
    THEN rstrip_cs(SubSeq(cs, 1, Len(cs) - 1)) ELSE cs

strip_cs(cs) == rstrip_cs(lstrip_cs(cs))

\* f"{street}, {city}, {stateCode}, {postalCode}".strip(', ')
FormatAddress(street, credit_address) ==
    LET city == GetD(credit_address, "city", JStr(<<>>))
        state == GetD(credit_address, "stateCode", JStr(<<>>))
        postal == GetD(credit_address, "postalCode", JStr(<<>>))
        all == <<street, city, state, postal>>
    IN IF AnyRaise(all) THEN FirstRaise(all)
       ELSE JStr(strip_cs(str(street) \o <<",", " ">> \o str(city) \o <<",", " ">>
                          \o str(state) \o <<",", " ">> \o str(postal)))

\* lines 251-278: one previous_addresses record
PreviousAddress(prev_addr) ==
    LET credit_address == GetD(prev_addr, "CreditAddress", EmptyDict)
        source == GetD(prev_addr, "Source", EmptyDict)
        bureau_info == GetD(source, "Bureau", EmptyDict)
        bureau_name == Or(Get(bureau_info, "description"), Get(bureau_info, "symbol"))
        unparsed == Get(credit_address, "unparsedStreet")
        addr_str ==
            IF IsRaise(bureau_name) THEN bureau_name
            ELSE IF IsRaise(unparsed) THEN unparsed
            ELSE IF Truthy(unparsed)
            THEN FormatAddress(GetD(credit_address, "unparsedStreet", JStr(<<>>)),
                               credit_address)
            ELSE FormatAddress(
                     Join(<<" ">>, KeepTruthy(<<Get(credit_address, "houseNumber"),
                                                Get(credit_address, "direction"),
                                                Get(credit_address, "streetName"),
                                                Get(credit_address, "streetType")>>)),
                     credit_address)
        address == IF IsRaise(addr_str) THEN addr_str
                   ELSE IF strip_cs(addr_str.s) # <<>> THEN safe_string(addr_str)
                   ELSE JNull
        date_reported == safe_string(Get(prev_addr, "dateReported"))
        bureau == safe_string(bureau_name)
    IN IF AnyRaise(<<address, date_reported, bureau>>)
       THEN FirstRaise(<<address, date_reported, bureau>>)
       ELSE JObj([address |-> address, date_reported |-> date_reported,
                  bureau |-> bureau])

\* a for-loop building one record per element; the first element that raises
\* ends the loop
MapPreviousAddress(items) ==
    [i \in 1..Len(items) |-> PreviousAddress(items[i])]

\* lines 237-278: previous_addresses added to the dict built at lines 237-242
WithPreviousAddresses(info, prev) ==
    IF AnyRaise(prev) THEN FirstRaise(prev)
    ELSE JObj([name |-> info[1], ssn |-> info[2], dateOfBirth |-> info[4],
               address |-> info[3], previous_addresses |-> JArr(prev)])

\* info = <<name, ssn, address, dateOfBirth, prev_addresses>>, in the order
\* the code evaluates them
PersonalInfoOf(info) ==
    IF AnyRaise(info) THEN FirstRaise(info)
    ELSE WithPreviousAddresses(info, MapPreviousAddress(info[5].a))

\* lines 127-278: personal_info of a truthy borrower, or the exception raised
PersonalInfo(bw) ==
    PersonalInfoOf(<<safe_string(ExtractName(bw)),
                     safe_string(ExtractSsn(bw)),
                     ExtractAddress(bw),
                     safe_string(ExtractBirthDate(bw)),
                     Iter(WrapDict(GetD(bw, "PreviousAddress", EmptyList)))>>)

----------------------------------------------------------------------------
(* Scores: src/main.py 68-75 and 280-318 *)

\* a dict whose key order is kept: a sequence of [key, val], in insertion order
ODict(items) == [k |-> "odict", items |-> items]

HasKey(d, key) == \E i \in 1..Len(d.items) : d.items[i].key = key

Lookup(d, key) == d.items[CHOOSE i \in 1..Len(d.items) : d.items[i].key = key].val

Keys(d) == {d.items[i].key : i \in 1..Len(d.items)}

\* a variant of d[key] = val that adds an entry even when the key is present
DictSetAppend(d, key, val) == ODict(Append(d.items, [key |-> key, val |-> val]))

\* d[key] = val
DictSet(d, key, val) ==
    IF HasKey(d, key)
    THEN ODict([i \in 1..Len(d.items) |->
                   IF d.items[i].key = key THEN [key |-> key, val |-> val]
                   ELSE d.items[i]])
    ELSE ODict(Append(d.items, [key |-> key, val |-> val]))

\* the scoreOverride argument is None or a dict
OverrideTruthy(sc) == sc.k = "odict" /\ sc.items # <<>>

\* a variant of line 70 that starts from {} whatever the caller passes
ScoresInitEmpty(sc) == ODict(<<>>)

\* line 70: "scores": scores or {}  -- the caller's own dict when it is truthy
ScoresInit(sc) == IF OverrideTruthy(sc) THEN sc ELSE ODict(<<>>)

\* needle in v, for a string needle: TypeError when v is not iterable
InOpRaises(v) == v.k \in {"null", "int", "bigint", "float"}

InOp(needle, v) ==
    CASE v.k = "str" -> Contains(v.s, needle)
      [] v.k = "arr" -> \E i \in 1..Len(v.a) : v.a[i] = JStr(needle)
      [] v.k \in {"null", "int", "bigint", "float"} -> FALSE

\* a variant of lines 291-296 that tests "EQF" before "TUC"
BundleScoreKeyEquifaxFirst(bureau) ==
    IF InOpRaises(bureau) THEN Raise("TypeError")
    ELSE IF InOp(EQF, bureau) THEN JStr(Equifax)
    ELSE IF InOp(TUC, bureau) THEN JStr(TransUnion)
    ELSE IF InOp(EXP, bureau) THEN JStr(Experian)
    ELSE JNull

\* lines 291-296: the bureau key a component type selects
BundleScoreKey(bureau) ==
    IF InOpRaises(bureau) THEN Raise("TypeError")
    ELSE IF InOp(TUC, bureau) THEN JStr(TransUnion)
    ELSE IF InOp(EQF, bureau) THEN JStr(Equifax)
    ELSE IF InOp(EXP, bureau) THEN JStr(Experian)
    ELSE JNull

\* lines 286-296, one component: the scores after it, or the exception
BundleScoreWrite(sc, comp) ==
    LET bureau == Get(comp, "Type")
        cs == Or(Get(comp, "CreditScoreType"), EmptyDict)
        score == Or(Get(cs, "riskScore"), Get(cs, "score"))
    IN IF AnyRaise(<<bureau, cs, score>>)
       THEN [scores |-> sc, exc |-> FirstRaise(<<bureau, cs, score>>)]
       ELSE IF Truthy(score) /\ Truthy(bureau)
       THEN LET key == BundleScoreKey(bureau) IN
            IF IsRaise(key) THEN [scores |-> sc, exc |-> key]
            ELSE IF key = JNull THEN [scores |-> sc, exc |-> JNull]
            ELSE [scores |-> DictSet(sc, key.s, score), exc |-> JNull]
       ELSE [scores |-> sc, exc |-> JNull]

RECURSIVE BundleScoreLoop(_, _)
BundleScoreLoop(st, comps) ==
    IF IsRaise(st.exc) \/ comps = <<>> THEN st
    ELSE BundleScoreLoop(BundleScoreWrite(st.scores, Head(comps)), Tail(comps))

\* lines 282-296: nothing is caught
BundleScores(cr, sc) ==
    IF ~IsDict(cr) THEN [scores |-> sc, exc |-> JNull]
    ELSE LET comps == Iter(WrapDict(
                 GetD(Or(Get(cr, "BundleComponents"), EmptyDict),
                      "BundleComponent", EmptyList)))
         IN IF IsRaise(comps) THEN [scores |-> sc, exc |-> comps]
            ELSE BundleScoreLoop([scores |-> sc, exc |-> JNull], comps.a)

\* lines 311-316: the bureau key a CreditScore entry selects
CreditScoreKey(bureau_symbol, bureau_name) ==
    LET named(marker) == Truthy(bureau_name) /\ InOp(marker, bureau_name) IN
    IF bureau_symbol # JStr(TUC) /\ Truthy(bureau_name) /\ InOpRaises(bureau_name)
    THEN Raise("TypeError")
    ELSE IF bureau_symbol = JStr(TUC) \/ named(TransUnion) THEN JStr(TransUnion)
    ELSE IF bureau_symbol = JStr(EQF) \/ named(Equifax) THEN JStr(Equifax)
    ELSE IF bureau_symbol = JStr(EXP) \/ named(Experian) THEN JStr(Experian)
    ELSE JNull

\* lines 303-316, one CreditScore entry
CreditScoreWrite(sc, credit_score) ==
    LET score_value == Get(credit_score, "riskScore")
        source == GetD(credit_score, "Source", EmptyDict)
        bureau_info == GetD(source, "Bureau", EmptyDict)
        bureau_symbol == Get(bureau_info, "symbol")
        bureau_name == Get(bureau_info, "description")
        all == <<score_value, bureau_symbol, bureau_name>>
    IN IF AnyRaise(all) THEN [scores |-> sc, exc |-> FirstRaise(all)]
       ELSE IF Truthy(score_value) /\ Truthy(bureau_symbol)
       THEN LET key == CreditScoreKey(bureau_symbol, bureau_name) IN
            IF IsRaise(key) THEN [scores |-> sc, exc |-> key]
            ELSE IF key = JNull THEN [scores |-> sc, exc |-> JNull]
            ELSE [scores |-> DictSet(sc, key.s, score_value), exc |-> JNull]
       ELSE [scores |-> sc, exc |-> JNull]

RECURSIVE CreditScoreLoop(_, _)
CreditScoreLoop(st, items) ==
    IF IsRaise(st.exc) \/ items = <<>> THEN st
    ELSE CreditScoreLoop(CreditScoreWrite(st.scores, Head(items)), Tail(items))

\* lines 299-318: runs when raw_report_str and borrower are both truthy; every
\* exception is caught, the writes made before it stay
BorrowerScores(rs, bw, sc) ==
    IF ~(Truthy(rs) /\ Truthy(bw)) THEN sc
    ELSE LET credit_scores == GetD(bw, "CreditScore", EmptyList) IN
         IF IsRaise(credit_scores) THEN sc
         ELSE IF ~IsList(credit_scores) THEN sc
         ELSE CreditScoreLoop([scores |-> sc, exc |-> JNull], credit_scores.a).scores

\* lines 280-318
ThenBorrowerScores(cr, rs, bw, b) ==
    IF IsRaise(b.exc) THEN b
    ELSE IF ~IsDict(cr) THEN b
    ELSE [scores |-> BorrowerScores(rs, bw, b.scores), exc |-> JNull]

ExtractScores(cr, rs, bw, sc) == ThenBorrowerScores(cr, rs, bw, BundleScores(cr, sc))

----------------------------------------------------------------------------
(* Accounts, pass 1: the primary trade list, src/main.py 320-423 *)

\* safe_number(x) if x else None
NumberIf(x) ==
    IF IsRaise(x) THEN x ELSE IF Truthy(x) THEN safe_number(x) ELSE JNull

\* {"description": safe_string(account_type)} if account_type else None
TypeObj(account_type) ==
    IF IsRaise(account_type) THEN account_type
    ELSE IF Truthy(account_type)
    THEN JObj([description |-> safe_string(account_type)])
    ELSE JNull

\* the exception raised while the fields of a record were evaluated, if any
FieldRaise(rec) ==
    IF \E f \in DOMAIN rec : IsRaise(rec[f])
    THEN rec[CHOOSE f \in DOMAIN rec : IsRaise(rec[f])]
    ELSE JNull

\* the record as a dict, or the exception raised by one of its fields
Built(rec) == IF IsRaise(FieldRaise(rec)) THEN FieldRaise(rec) ELSE JObj(rec)

\* lines 325-422: the account built from one entry of the trade list
TradeAccount(trade) ==
    LET inst == Or(Get(trade, "institution"), EmptyDict)
        institution_name == Get(inst, "name")
        account_type_obj == Or(Get(trade, "accountTypeObj"), EmptyDict)
        account_type_display == Get(trade, "accountTypeDisplay")
        account_type_description == Get(account_type_obj, "description")
        account_type == Or(account_type_display,
                           Or(account_type_description, Get(trade, "accountType")))
        member_code_account == Or(Get(trade, "memberCodeAccount"), EmptyDict)
        creditor_contact == Or(Get(member_code_account, "creditorContact"), EmptyDict)
        bureau1 == Get(creditor_contact, "creditorContactSource")
        bureau2 == Or(bureau1, Get(Or(Get(trade, "creditorContact"), EmptyDict),
                                   "creditorContactSource"))
        bureau == Or(bureau2, Or(Get(trade, "bureau"),
                                 Or(Get(trade, "source"), Get(trade, "reportingBureau"))))
        account_status == Or(Get(trade, "accountStatus"),
                             Get(trade, "currentAccountRatingDisplay"))
        current_balance == Get(trade, "currentBalanceAmount")
        credit_limit == Get(trade, "creditLimitAmount")
        high_credit == Get(trade, "highCreditAmount")
        open_date == Or(Get(trade, "openDateFormatted"), Get(trade, "openDate"))
        closed_date == Get(trade, "closedDate")
        account_number == Get(trade, "maskedAccountNumber")
        payment_amount == Or(Get(trade, "termsMonthlyPayment"),
                             Get(trade, "scheduledMonthlyPayment"))
        last_reported == Get(trade, "lastReported")
        member_code == Get(trade, "memberCode")
        payment_history == Get(trade, "paymentHistory")
        account_age == Get(trade, "accountAge")
        early == <<institution_name, account_type_description, account_type, bureau>>
    IN IF AnyRaise(early) THEN FirstRaise(early)
       ELSE Built(
        [institution |-> Built([name |-> safe_string(institution_name)]),
         accountTypeObj |-> TypeObj(account_type),
         accountType |-> safe_string(account_type),
         accountStatus |-> safe_string(account_status),
         currentBalanceAmount |-> safe_string(current_balance),
         creditLimitAmount |-> safe_string(credit_limit),
         currentAccountRatingDisplay |-> safe_string(account_status),
         openDateFormatted |-> safe_string(open_date),
         maskedAccountNumber |-> safe_string(account_number),
         highCreditAmount |-> safe_string(high_credit),
         termsMonthlyPayment |-> safe_string(payment_amount),
         paymentHistory |-> safe_string(payment_history),
         times30Late |-> safe_number(Get(trade, "times30Late")),
         times60Late |-> safe_number(Get(trade, "times60Late")),
         times90Late |-> safe_number(Get(trade, "times90Late")),
         creditorContactSource |-> safe_string(bureau),
         bureau |-> safe_string(bureau),
         lastReported |-> safe_string(last_reported),
         accountAge |-> safe_string(account_age),
         dateClosed |-> safe_string(closed_date),
         memberCode |-> safe_string(member_code),
         account_type |-> safe_string(account_type),
         status |-> safe_string(account_status),
         balance |-> NumberIf(current_balance),
         credit_limit |-> NumberIf(credit_limit),
         high_balance |-> NumberIf(high_credit),
         open_date |-> safe_string(open_date),
         closed_date |-> safe_string(closed_date),
         payment_amount |-> NumberIf(payment_amount),
         account_number |-> safe_string(account_number),
         last_reported |-> safe_string(last_reported),
         account_age |-> safe_string(account_age)])

\* a variant of line 423 that puts the account in front of the list
TradeAppendFront(accounts, acct) ==
    IF IsRaise(acct) THEN [accounts |-> accounts, exc |-> acct]
    ELSE [accounts |-> <<acct>> \o accounts, exc |-> JNull]

\* lines 324-423: one account appended per entry, no duplicate check
\* line 423: accounts.append(account), unless building the account raised
TradeAppend(accounts, acct) ==
    IF IsRaise(acct) THEN [accounts |-> accounts, exc |-> acct]
    ELSE [accounts |-> Append(accounts, acct), exc |-> JNull]

RECURSIVE TradeLoop(_, _)
TradeLoop(st, trades) ==
    IF IsRaise(st.exc) \/ trades = <<>> THEN st
    ELSE TradeLoop(TradeAppend(st.accounts, TradeAccount(Head(trades))), Tail(trades))

\* lines 321-423
TradeList(r) ==
    Iter(WrapDict(GetD(Or(Get(r, "trades"), EmptyDict), "trades", EmptyList)))

TradeAccounts(r, accounts) ==
    LET trades == TradeList(r) IN
    IF IsRaise(trades) THEN [accounts |-> accounts, exc |-> trades]
    ELSE TradeLoop([accounts |-> accounts, exc |-> JNull], trades.a)

----------------------------------------------------------------------------
(* Dates: datetime.strptime(d, "%Y-%m-%d").strftime("%b %d, %Y"), 478-493 *)

MonthAbbr ==
    << <<"J", "a", "n">>, <<"F", "e", "b">>, <<"M", "a", "r">>, <<"A", "p", "r">>,
       <<"M", "a", "y">>, <<"J", "u", "n">>, <<"J", "u", "l">>, <<"A", "u", "g">>,
       <<"S", "e", "p">>, <<"O", "c", "t">>, <<"N", "o", "v">>, <<"D", "e", "c">> >>

IsLeap(y) == (y % 4 = 0 /\ y % 100 # 0) \/ y % 400 = 0

DaysInMonth(y, m) ==
    IF m = 2 THEN (IF IsLeap(y) THEN 29 ELSE 28)
    ELSE IF m \in {4, 6, 9, 11} THEN 30 ELSE 31

\* the positions of "-" in cs
Dashes(cs) == {i \in 1..Len(cs) : cs[i] = "-"}

\* %m : 1[0-2] | 0[1-9] | [1-9]
MonthField(cs) ==
    /\ AllDigits(cs) /\ Len(cs) \in {1, 2}
    /\ DecimalValue(cs) \in 1..12

\* %d : 3[01] | [12]\d | 0[1-9] | [1-9] | " "[1-9]
DayField(cs) ==
    \/ AllDigits(cs) /\ Len(cs) \in {1, 2} /\ DecimalValue(cs) \in 1..31
    \/ Len(cs) = 2 /\ cs[1] = " " /\ IsDigit(cs[2]) /\ cs[2] # "0"

\* the split of cs as YYYY-m-d, when strptime accepts it
DateParts(cs) ==
    LET d1 == CHOOSE i \in Dashes(cs) : \A j \in Dashes(cs) : i <= j
        d2 == CHOOSE i \in Dashes(cs) : \A j \in Dashes(cs) : i >= j
    IN [y |-> SubSeq(cs, 1, d1 - 1), m |-> SubSeq(cs, d1 + 1, d2 - 1),
        d |-> SubSeq(cs, d2 + 1, Len(cs))]

ParsesAsDate(cs) ==
    /\ Cardinality(Dashes(cs)) = 2
    /\ LET p == DateParts(cs) IN
       /\ Len(p.y) = 4 /\ AllDigits(p.y) /\ DecimalValue(p.y) >= 1
       /\ MonthField(p.m)
       /\ DayField(p.d)
       /\ DecimalValue(lstrip(p.d)) <= DaysInMonth(DecimalValue(p.y), DecimalValue(p.m))

TwoDigits(n) == IF n < 10 THEN <<"0">> \o DecimalDigits(n) ELSE DecimalDigits(n)

\* "%b %d, %Y"
FormatDate(cs) ==
    LET p == DateParts(cs) IN
    MonthAbbr[DecimalValue(p.m)] \o <<" ">> \o TwoDigits(DecimalValue(lstrip(p.d)))
    \o <<",", " ">> \o DecimalDigits(DecimalValue(p.y))

\* lines 479-485: a failed conversion leaves the value as it was
readable_date(d) ==
    IF IsRaise(d) THEN d
    ELSE IF ~Truthy(d) THEN d
    ELSE IF ~Contains(str(d), <<"-">>) THEN d
    ELSE IF IsStr(d) /\ ParsesAsDate(d.s) THEN JStr(FormatDate(d.s))
    ELSE d

----------------------------------------------------------------------------
(* Accounts, pass 2: TradeLinePartition of the merged report, 425-547 *)

\* a == b between a stored string-or-None and a source value
PyEq(a, b) == a = b

\* lines 452-457 and 574-579
CreditorName(tradeline) ==
    Or(Get(tradeline, "creditorName"),
    Or(Get(tradeline, "creditor_name"),
    Or(Get(tradeline, "institutionName"),
    Or(Get(tradeline, "institution_name"),
    Or(Get(tradeline, "lenderName"), Get(tradeline, "subscriberName"))))))

\* lines 463-464 and 583
AccountStatus(tradeline) ==
    LET a == Get(tradeline, "accountStatus")
        b == Get(GetD(tradeline, "accountCondition", EmptyDict), "description")
    IN Or(a, b)

\* lines 538-544: the accumulated entry compared on number, name and bureau
IsDuplicate3(accounts, account_number, creditor_name, bureau_symbol) ==
    \E i \in 1..Len(accounts) :
        /\ PyEq(Get(accounts[i], "maskedAccountNumber"), account_number)
        /\ PyEq(Get(GetD(accounts[i], "institution", EmptyDict), "name"), creditor_name)
        /\ PyEq(Get(accounts[i], "bureau"), bureau_symbol)

\* lines 446-535: the candidate built from one tradeline of a partition item
TradelineCandidate(tradeline, partition_item) ==
    LET source == GetD(tradeline, "Source", EmptyDict)
        bureau_info == GetD(source, "Bureau", EmptyDict)
        bureau_symbol == Get(bureau_info, "symbol")
        bureau_name == Get(bureau_info, "description")
        creditor_name == CreditorName(tradeline)
        account_number == Or(Get(tradeline, "accountNumber"),
                             Get(tradeline, "maskedAccountNumber"))
        account_type == Or(Get(tradeline, "accountType"),
                           Or(Get(tradeline, "accountTypeDescription"),
                              Get(partition_item, "accountTypeDescription")))
        account_status == AccountStatus(tradeline)
        current_balance == Or(Get(tradeline, "currentBalance"),
                              Get(tradeline, "balanceAmount"))
        credit_limit == Or(Get(tradeline, "creditLimit"),
                           Get(tradeline, "creditLimitAmount"))
        high_balance == Or(Get(tradeline, "highBalance"),
                           Get(tradeline, "highCreditAmount"))
        open_date == readable_date(Or(Get(tradeline, "dateOpened"),
                                      Get(tradeline, "openDate")))
        close_date == readable_date(Or(Get(tradeline, "dateClosed"),
                                       Get(tradeline, "closedDate")))
        last_reported == Or(Get(tradeline, "dateReported"),
                            Get(tradeline, "lastReported"))
        early == <<bureau_symbol, bureau_name, account_status>>
    IN IF AnyRaise(early) THEN [exc |-> FirstRaise(early)]
       ELSE
       [exc |-> JNull,
        creditor_name |-> creditor_name,
        account_number |-> account_number,
        bureau_symbol |-> bureau_symbol,
        acct |-> Built(
        [institution |-> Built([name |-> safe_string(creditor_name)]),
         accountTypeObj |-> TypeObj(account_type),
         accountType |-> safe_string(account_type),
         accountStatus |-> safe_string(account_status),
         currentBalanceAmount |-> safe_string(current_balance),
         creditLimitAmount |-> safe_string(credit_limit),
         currentAccountRatingDisplay |-> safe_string(account_status),
         openDateFormatted |-> safe_string(open_date),
         maskedAccountNumber |-> safe_string(account_number),
         highCreditAmount |-> safe_string(high_balance),
         termsMonthlyPayment |-> JNull,
         paymentHistory |-> JNull,
         times30Late |-> JNull,
         times60Late |-> JNull,
         times90Late |-> JNull,
         creditorContactSource |-> safe_string(bureau_symbol),
         bureau |-> safe_string(bureau_symbol),
         lastReported |-> safe_string(last_reported),
         accountAge |-> JNull,
         dateClosed |-> safe_string(close_date),
         memberCode |-> JNull,
         account_type |-> safe_string(account_type),
         status |-> safe_string(account_status),
         balance |-> NumberIf(current_balance),
         credit_limit |-> NumberIf(credit_limit),
         high_balance |-> NumberIf(high_balance),
         open_date |-> safe_string(open_date),
         closed_date |-> safe_string(close_date),
         payment_amount |-> JNull,
         account_number |-> safe_string(account_number),
         last_reported |-> safe_string(last_reported),
         account_age |-> JNull])]

\* a variant of lines 538-547 that puts an accepted account in front of the
\* accumulated accounts
PrependUnlessDuplicate3(accounts, c) ==
    IF IsRaise(c.exc) THEN [accounts |-> accounts, exc |-> c.exc]
    ELSE IF IsRaise(c.acct) THEN [accounts |-> accounts, exc |-> c.acct]
    ELSE IF /\ ~IsDuplicate3(accounts, c.account_number, c.creditor_name,
                             c.bureau_symbol)
            /\ Truthy(c.creditor_name) /\ Truthy(c.account_number)
    THEN [accounts |-> <<c.acct>> \o accounts, exc |-> JNull]
    ELSE [accounts |-> accounts, exc |-> JNull]

\* lines 441-547, one tradeline: skipped when not a dict, appended when it is
\* no duplicate and has a creditor name and an account number
\* lines 538-547: the candidate c against the accumulated accounts
AppendUnlessDuplicate3(accounts, c) ==
    IF IsRaise(c.exc) THEN [accounts |-> accounts, exc |-> c.exc]
    ELSE IF IsRaise(c.acct) THEN [accounts |-> accounts, exc |-> c.acct]
    ELSE IF /\ ~IsDuplicate3(accounts, c.account_number, c.creditor_name,
                             c.bureau_symbol)
            /\ Truthy(c.creditor_name) /\ Truthy(c.account_number)
    THEN [accounts |-> Append(accounts, c.acct), exc |-> JNull]
    ELSE [accounts |-> accounts, exc |-> JNull]

PartitionAppend(accounts, tradeline, partition_item) ==
    IF ~IsDict(tradeline) THEN [accounts |-> accounts, exc |-> JNull]
    ELSE AppendUnlessDuplicate3(accounts, TradelineCandidate(tradeline, partition_item))

RECURSIVE TradelineLoop(_, _, _)
TradelineLoop(st, tradelines, partition_item) ==
    IF IsRaise(st.exc) \/ tradelines = <<>> THEN st
    ELSE TradelineLoop(PartitionAppend(st.accounts, Head(tradelines), partition_item),
                       Tail(tradelines), partition_item)

\* lines 433-439: Tradeline as a list, or one value wrapped when truthy
ListOrWrapped(tradeline_data) ==
    IF IsRaise(tradeline_data) THEN tradeline_data
    ELSE IF IsList(tradeline_data) THEN tradeline_data
    ELSE IF Truthy(tradeline_data) THEN JArr(<<tradeline_data>>)
    ELSE EmptyList

Tradelines(partition_item) ==
    ListOrWrapped(GetD(partition_item, "Tradeline", EmptyDict))

\* lines 441-547: the tradelines of one partition item
PartitionItem(accounts, tradelines, partition_item) ==
    IF IsRaise(tradelines) THEN [accounts |-> accounts, exc |-> tradelines]
    ELSE TradelineLoop([accounts |-> accounts, exc |-> JNull], tradelines.a,
                       partition_item)

RECURSIVE PartitionLoop(_, _)
PartitionLoop(st, items) ==
    IF IsRaise(st.exc) \/ items = <<>> THEN st
    ELSE PartitionLoop(PartitionItem(st.accounts, Tradelines(Head(items)), Head(items)),
                       Tail(items))

\* lines 427-547: nothing is caught
PartitionAccounts(tl, accounts) ==
    IF ~Truthy(tl) THEN [accounts |-> accounts, exc |-> JNull]
    ELSE LET tradeline_partition ==
                 Iter(WrapDict(GetD(tl, "TradeLinePartition", EmptyList)))
         IN IF IsRaise(tradeline_partition)
            THEN [accounts |-> accounts, exc |-> tradeline_partition]
            ELSE PartitionLoop([accounts |-> accounts, exc |-> JNull],
                               tradeline_partition.a)

----------------------------------------------------------------------------
(* Accounts, pass 3: per-bureau report components of rawReport, 549-633 *)

\* line 562: comp_type in ["TUCReportV6", "EQFReportV6", "EXPReportV6"]
IsBureauReport(comp_type) ==
    comp_type \in {JStr(TUC \o ReportV6), JStr(EQF \o ReportV6), JStr(EXP \o ReportV6)}

\* line 563
BureauSymbol(comp_type) ==
    IF Contains(comp_type.s, TUC) THEN TUC
    ELSE IF Contains(comp_type.s, EQF) THEN EQF ELSE EXP

\* lines 622-627: the accumulated entry compared on number and name only
IsDuplicate2(accounts, account_number, creditor_name) ==
    \E i \in 1..Len(accounts) :
        /\ PyEq(Get(accounts[i], "maskedAccountNumber"), account_number)
        /\ PyEq(Get(GetD(accounts[i], "institution", EmptyDict), "name"), creditor_name)

\* lines 573-619: the candidate built from one tradeline of a bureau report
BureauCandidate(tradeline, bureau_symbol) ==
    LET creditor_name == CreditorName(tradeline)
        account_number == Or(Get(tradeline, "accountNumber"),
                             Get(tradeline, "maskedAccountNumber"))
        account_type == Or(Get(tradeline, "accountType"),
                           Get(tradeline, "accountTypeDescription"))
        account_status == AccountStatus(tradeline)
        current_balance == Get(tradeline, "currentBalance")
        credit_limit == Get(tradeline, "creditLimit")
        high_balance == Get(tradeline, "highBalance")
        open_date == Get(tradeline, "dateOpened")
        close_date == Get(tradeline, "dateClosed")
        early == <<creditor_name, account_status>>
    IN IF AnyRaise(early) THEN [exc |-> FirstRaise(early)]
       ELSE
       [exc |-> JNull,
        creditor_name |-> creditor_name,
        account_number |-> account_number,
        acct |-> Built(
        [institution |-> Built([name |-> safe_string(creditor_name)]),
         accountTypeObj |-> TypeObj(account_type),
         accountType |-> safe_string(account_type),
         accountStatus |-> safe_string(account_status),
         currentBalanceAmount |-> safe_string(current_balance),
         creditLimitAmount |-> safe_string(credit_limit),
         currentAccountRatingDisplay |-> safe_string(account_status),
         openDateFormatted |-> safe_string(open_date),
         maskedAccountNumber |-> safe_string(account_number),
         highCreditAmount |-> safe_string(high_balance),
         creditorContactSource |-> safe_string(JStr(bureau_symbol)),
         bureau |-> safe_string(JStr(bureau_symbol)),
         dateClosed |-> safe_string(close_date),
         account_type |-> safe_string(account_type),
         status |-> safe_string(account_status),
         balance |-> NumberIf(current_balance),
         credit_limit |-> NumberIf(credit_limit),
         high_balance |-> NumberIf(high_balance),
         open_date |-> safe_string(open_date),
         closed_date |-> safe_string(close_date),
         account_number |-> safe_string(account_number)])]

\* lines 572-630, one tradeline: appended when it is no duplicate
\* lines 622-630: the candidate c against the accumulated accounts
AppendUnlessDuplicate2(accounts, c) ==
    IF IsRaise(c.exc) THEN [accounts |-> accounts, exc |-> c.exc]
    ELSE IF IsRaise(c.acct) THEN [accounts |-> accounts, exc |-> c.acct]
    ELSE IF ~IsDuplicate2(accounts, c.account_number, c.creditor_name)
    THEN [accounts |-> Append(accounts, c.acct), exc |-> JNull]
    ELSE [accounts |-> accounts, exc |-> JNull]

BureauAppend(accounts, tradeline, bureau_symbol) ==
    AppendUnlessDuplicate2(accounts, BureauCandidate(tradeline, bureau_symbol))

RECURSIVE BureauTradelineLoop(_, _, _)
BureauTradelineLoop(st, tradelines, bureau_symbol) ==
    IF IsRaise(st.exc) \/ tradelines = <<>> THEN st
    ELSE BureauTradelineLoop(BureauAppend(st.accounts, Head(tradelines), bureau_symbol),
                             Tail(tradelines), bureau_symbol)

\* lines 567-570
BureauTradelines(comp) ==
    LET report_data == GetD(comp, "CreditReportType", EmptyDict) IN
    Iter(WrapDict(Or(GetD(report_data, "Tradeline", EmptyList),
                  Or(GetD(report_data, "Trade", EmptyList),
                     GetD(report_data, "Account", EmptyList)))))

\* lines 561-630: the tradelines of one component, when it is a bureau report
BureauComponent(accounts, comp_type, tradelines) ==
    IF IsRaise(comp_type) THEN [accounts |-> accounts, exc |-> comp_type]
    ELSE IF ~IsBureauReport(comp_type) THEN [accounts |-> accounts, exc |-> JNull]
    ELSE IF IsRaise(tradelines) THEN [accounts |-> accounts, exc |-> tradelines]
    ELSE BureauTradelineLoop([accounts |-> accounts, exc |-> JNull], tradelines.a,
                             BureauSymbol(comp_type))

RECURSIVE BureauComponentLoop(_, _)
BureauComponentLoop(st, comps) ==
    IF IsRaise(st.exc) \/ comps = <<>> THEN st
    ELSE BureauComponentLoop(BureauComponent(st.accounts, Get(Head(comps), "Type"),
                                             BureauTradelines(Head(comps))),
                             Tail(comps))

\* lines 550-633: rawReport is parsed again; every exception is caught and the
\* accounts appended before it stay
BureauComponentList(bundle_components) ==
    IF IsRaise(bundle_components) THEN bundle_components
    ELSE IF ~IsDict(bundle_components) THEN EmptyList
    ELSE Iter(WrapDict(GetD(bundle_components, "BundleComponent", EmptyList)))

BureauAccounts(rs, accounts) ==
    IF ~Truthy(rs) THEN accounts
    ELSE LET bundle_component_list ==
                 BureauComponentList(GetD(json_loads(rs), "BundleComponents",
                                          EmptyDict))
         IN IF IsRaise(bundle_component_list) THEN accounts
            ELSE BureauComponentLoop([accounts |-> accounts, exc |-> JNull],
                                     bundle_component_list.a).accounts

----------------------------------------------------------------------------
(* Inquiries, public records, employers: src/main.py 635-726 *)

\* the records appended to out before the first one that raises
RECURSIVE AppendUntilRaise(_, _)
AppendUntilRaise(out, recs) ==
    IF recs = <<>> THEN [out |-> out, exc |-> JNull]
    ELSE IF IsRaise(Head(recs)) THEN [out |-> out, exc |-> Head(recs)]
    ELSE AppendUntilRaise(Append(out, Head(recs)), Tail(recs))

\* lines 641-646
SearchInquiry(iq) ==
    Built([bureau |-> Get(iq, "bureau"),
           business_name |-> Get(iq, "subscriberName"),
           inquiry_date |-> Get(iq, "inquiryDate"),
           type |-> Get(iq, "inquiryType")])

\* lines 655-669: an item with a falsy Inquiry appends nothing
PartitionInquiry(inquiry_item) ==
    LET inquiry_data == GetD(inquiry_item, "Inquiry", EmptyDict) IN
    IF IsRaise(inquiry_data) THEN inquiry_data
    ELSE IF ~Truthy(inquiry_data) THEN JNull
    ELSE LET bureau_info == GetD(GetD(inquiry_data, "Source", EmptyDict),
                                 "Bureau", EmptyDict)
             bureau_name == Or(Get(inquiry_data, "bureau"),
                               Or(Get(bureau_info, "description"),
                                  Get(bureau_info, "abbreviation")))
         IN Built([bureau |-> bureau_name,
                   business_name |-> Get(inquiry_data, "subscriberName"),
                   inquiry_date |-> Get(inquiry_data, "inquiryDate"),
                   type |-> Get(inquiry_data, "inquiryType")])

\* a variant of line 664 that drops a record the list already holds
PartitionInquiryAppendNew(out, h) ==
    IF IsRaise(h) THEN [out |-> out, exc |-> h]
    ELSE [out |-> IF h = JNull \/ (\E i \in 1..Len(out) : out[i] = h)
                  THEN out ELSE Append(out, h),
          exc |-> JNull]

\* line 664: inquiries.append({...}), for an item that has an Inquiry
PartitionInquiryAppend(out, h) ==
    IF IsRaise(h) THEN [out |-> out, exc |-> h]
    ELSE [out |-> IF h = JNull THEN out ELSE Append(out, h), exc |-> JNull]

RECURSIVE PartitionInquiryLoop(_, _)
PartitionInquiryLoop(st, items) ==
    IF IsRaise(st.exc) \/ items = <<>> THEN st
    ELSE PartitionInquiryLoop(PartitionInquiryAppend(st.out, PartitionInquiry(Head(items))),
                              Tail(items))

\* lines 677-686
BorrowerInquiry(iq) ==
    LET bureau_info == GetD(GetD(iq, "Source", EmptyDict), "Bureau", EmptyDict)
        bureau_name == Or(Get(bureau_info, "description"), Get(bureau_info, "symbol"))
    IN Built([bureau |-> bureau_name,
              business_name |-> Or(Get(iq, "subscriberName"), Get(iq, "businessName")),
              inquiry_date |-> Or(Get(iq, "inquiryDate"), Get(iq, "dateReported")),
              type |-> Or(Get(iq, "inquiryType"), Get(iq, "type"))])

\* lines 637-686: nothing is caught
ExtractInquiries(r, tl, bw) ==
    LET inqs == Iter(WrapDict(GetD(Or(Get(r, "search_results"), EmptyDict),
                                   "inquiries", EmptyList)))
    IN IF IsRaise(inqs) THEN [out |-> <<>>, exc |-> inqs]
       ELSE LET a == AppendUntilRaise(<<>>, [i \in 1..Len(inqs.a) |-> SearchInquiry(inqs.a[i])]) IN
       IF IsRaise(a.exc) THEN a
       ELSE LET inquiry_partition ==
                    IF Truthy(tl)
                    THEN Iter(WrapDict(GetD(tl, "InquiryPartition", EmptyList)))
                    ELSE EmptyList
            IN IF IsRaise(inquiry_partition) THEN [out |-> a.out, exc |-> inquiry_partition]
               ELSE LET b == PartitionInquiryLoop([out |-> a.out, exc |-> JNull],
                                                  inquiry_partition.a) IN
               IF IsRaise(b.exc) THEN b
               ELSE LET raw_inquiries ==
                            IF Truthy(bw)
                            THEN Iter(WrapDict(GetD(bw, "Inquiry", EmptyList)))
                            ELSE EmptyList
                    IN IF IsRaise(raw_inquiries)
                       THEN [out |-> b.out, exc |-> raw_inquiries]
                       ELSE AppendUntilRaise(b.out, [i \in 1..Len(raw_inquiries.a) |-> BorrowerInquiry(raw_inquiries.a[i])])

\* lines 693-698
PublicRecord(pr) ==
    Built([type |-> Get(pr, "type"),
           date_filed |-> Get(pr, "dateFiled"),
           status |-> Get(pr, "status"),
           amount |-> safe_number(Get(pr, "amount"))])

\* lines 689-698
ExtractPublicRecords(r) ==
    LET prs == Iter(WrapDict(GetD(Or(Get(r, "search_results"), EmptyDict),
                                  "publicRecords", EmptyList)))
    IN IF IsRaise(prs) THEN [out |-> <<>>, exc |-> prs]
       ELSE AppendUntilRaise(<<>>, [i \in 1..Len(prs.a) |-> PublicRecord(prs.a[i])])

\* lines 707-715
BorrowerEmployer(emp) ==
    LET bureau_info == GetD(GetD(emp, "Source", EmptyDict), "Bureau", EmptyDict)
        bureau_name == Or(Get(bureau_info, "description"), Get(bureau_info, "symbol"))
    IN Built([name |-> Get(emp, "name"),
              date_reported |-> Or(Get(emp, "dateReported"), Get(emp, "dateUpdated")),
              bureau |-> bureau_name])

\* lines 722-726
FallbackEmployer(emp) ==
    Built([name |-> Or(Get(emp, "name"), Get(emp, "employerName")),
           date_reported |-> Or(Get(emp, "dateReported"), Get(emp, "dateUpdated")),
           bureau |-> Get(emp, "bureau")])

\* lines 702-726: cr_json.get is called whatever cr_json is
ExtractEmployers(cr, bw) ==
    LET employers == IF Truthy(bw)
                     THEN Iter(WrapDict(GetD(bw, "Employer", EmptyList)))
                     ELSE EmptyList
    IN IF IsRaise(employers) THEN [out |-> <<>>, exc |-> employers]
       ELSE LET a == AppendUntilRaise(<<>>, [i \in 1..Len(employers.a) |-> BorrowerEmployer(employers.a[i])]) IN
       IF IsRaise(a.exc) THEN a
       ELSE LET fallback_employers ==
                    Iter(WrapDict(GetD(Or(Get(cr, "Borrower"), EmptyDict),
                                       "Employer", EmptyList)))
            IN IF IsRaise(fallback_employers)
               THEN [out |-> a.out, exc |-> fallback_employers]
               ELSE AppendUntilRaise(a.out, [i \in 1..Len(fallback_employers.a) |-> FallbackEmployer(fallback_employers.a[i])])

----------------------------------------------------------------------------
(* normalize_report as a sequence of steps over one frame of locals *)

\* lines 68-81: the report under construction and the locals
BeginFrame(r, sc) ==
    [normalized |-> [personal_info |-> EmptyDict,
                     scores |-> ScoresInit(sc),
                     accounts |-> <<>>,
                     inquiries |-> <<>>,
                     public_records |-> <<>>,
                     employers |-> <<>>],
     scores |-> sc,
     cr_json |-> CrJson(r),
     raw_report_str |-> JNull,
     borrower |-> JNull,
     true_link |-> JNull,
     exc |-> JNull]

\* lines 83-107
NavigateFrame(f) ==
    LET n == ParseRawReport(f.cr_json) IN
    [f EXCEPT !.raw_report_str = n.raw_report_str,
              !.true_link = n.true_link,
              !.borrower = n.borrower]

\* lines 110-278
WithBorrower(f, b) ==
    [f EXCEPT !.true_link = b.true_link, !.borrower = b.borrower, !.exc = b.exc]

\* line 243: normalized["personal_info"] = {...}
WithPersonalInfo(f, info) ==
    IF IsRaise(info) THEN [f EXCEPT !.exc = info]
    ELSE [f EXCEPT !.normalized.personal_info = info]

\* line 127: if isinstance(cr_json, dict) and borrower
PersonalInfoIfBorrower(f) ==
    IF IsRaise(f.exc) THEN f
    ELSE IF ~(IsDict(f.cr_json) /\ Truthy(f.borrower)) THEN f
    ELSE WithPersonalInfo(f, PersonalInfo(f.borrower))

PersonalInfoFrame(f) ==
    PersonalInfoIfBorrower(
        WithBorrower(f, FallbackBorrower(f.cr_json, f.true_link, f.borrower)))

\* lines 280-318: a write to normalized["scores"] is a write to the caller's
\* dict when line 70 took the caller's dict
WithScores(f, r) ==
    [f EXCEPT !.normalized.scores = r.scores,
              !.scores = IF OverrideTruthy(f.scores) THEN r.scores ELSE f.scores,
              !.exc = r.exc]

ScoresFrame(f) ==
    IF IsRaise(f.exc) THEN f
    ELSE WithScores(f, ExtractScores(f.cr_json, f.raw_report_str, f.borrower,
                                     f.normalized.scores))

\* lines 320-423
WithAccounts(f, a) == [f EXCEPT !.normalized.accounts = a.accounts, !.exc = a.exc]

TradesFrame(r, f) ==
    IF IsRaise(f.exc) THEN f
    ELSE WithAccounts(f, TradeAccounts(r, f.normalized.accounts))

\* lines 425-547
PartitionFrame(f) ==
    IF IsRaise(f.exc) THEN f
    ELSE WithAccounts(f, PartitionAccounts(f.true_link, f.normalized.accounts))

\* lines 549-633
BureauFrame(f) ==
    IF IsRaise(f.exc) THEN f
    ELSE [f EXCEPT !.normalized.accounts =
                       BureauAccounts(f.raw_report_str, f.normalized.accounts)]

\* lines 635-686
WithList(f, key, a) == [f EXCEPT !.normalized[key] = a.out, !.exc = a.exc]

InquiriesFrame(r, f) ==
    IF IsRaise(f.exc) THEN f
    ELSE WithList(f, "inquiries", ExtractInquiries(r, f.true_link, f.borrower))

\* lines 688-698
PublicRecordsFrame(r, f) ==
    IF IsRaise(f.exc) THEN f
    ELSE WithList(f, "public_records", ExtractPublicRecords(r))

\* lines 700-726
EmployersFrame(f) ==
    IF IsRaise(f.exc) THEN f
    ELSE WithList(f, "employers", ExtractEmployers(f.cr_json, f.borrower))

\* normalize_report(r, sc): the frame at return, or at the raise (a frame
\* that holds an exception passes through the later sections unchanged)
normalize_report(r, sc) ==
    EmployersFrame(
    PublicRecordsFrame(r,
    InquiriesFrame(r,
    BureauFrame(
    PartitionFrame(
    TradesFrame(r,
    ScoresFrame(
    PersonalInfoFrame(
    NavigateFrame(
    BeginFrame(r, sc))))))))))

----------------------------------------------------------------------------
(* normalize_report of src/main_fixed.py, lines 53-386; its lines 53-244 and *)
(* 246-349 are lines 52-243 and 320-423 of src/main.py                       *)

\* main_fixed.py 127-244: personal_info of a truthy borrower; the borrower's
\* PreviousAddress is not read
PersonalInfoFixed(bw) ==
    PersonalInfoOf(<<safe_string(ExtractName(bw)),
                     safe_string(ExtractSsn(bw)),
                     ExtractAddress(bw),
                     safe_string(ExtractBirthDate(bw)),
                     EmptyList>>)

\* main_fixed.py 111-244
PersonalInfoFrameFixed(f) ==
    LET g == WithBorrower(f, FallbackBorrower(f.cr_json, f.true_link, f.borrower)) IN
    IF IsRaise(g.exc) THEN g
    ELSE IF ~(IsDict(g.cr_json) /\ Truthy(g.borrower)) THEN g
    ELSE WithPersonalInfo(g, PersonalInfoFixed(g.borrower))

\* a variant of main_fixed.py 352-354 that leaves a bare inquiry object
\* unwrapped: the loop then visits its keys
ExtractInquiriesFixedUnwrapped(r) ==
    LET inqs == GetD(Or(Get(r, "search_results"), EmptyDict), "inquiries", EmptyList)
    IN IF IsRaise(inqs) THEN [out |-> <<>>, exc |-> inqs]
       ELSE IF IsDict(inqs)
       THEN [out |-> <<>>,
             exc |-> IF inqs = EmptyDict THEN JNull ELSE Raise("AttributeError")]
       ELSE IF IsRaise(Iter(inqs)) THEN [out |-> <<>>, exc |-> Iter(inqs)]
       ELSE AppendUntilRaise(<<>>, [i \in 1..Len(Iter(inqs).a) |->
                                       SearchInquiry(Iter(inqs).a[i])])

\* main_fixed.py 352-361: the inquiries of search_results, and no other
ExtractInquiriesFixed(r) ==
    LET inqs == Iter(WrapDict(GetD(Or(Get(r, "search_results"), EmptyDict),
                                   "inquiries", EmptyList)))
    IN IF IsRaise(inqs) THEN [out |-> <<>>, exc |-> inqs]
       ELSE AppendUntilRaise(<<>>, [i \in 1..Len(inqs.a) |-> SearchInquiry(inqs.a[i])])

InquiriesFrameFixed(r, f) ==
    IF IsRaise(f.exc) THEN f
    ELSE WithList(f, "inquiries", ExtractInquiriesFixed(r))

\* main_fixed.py 376-384: the employers of Borrower in the outer document, and
\* no other; cr_json.get is called whatever cr_json is
ExtractEmployersFixed(cr) ==
    LET fallback_employers ==
            Iter(WrapDict(GetD(Or(Get(cr, "Borrower"), EmptyDict),
                               "Employer", EmptyList)))
    IN IF IsRaise(fallback_employers) THEN [out |-> <<>>, exc |-> fallback_employers]
       ELSE AppendUntilRaise(<<>>, [i \in 1..Len(fallback_employers.a) |->
                                       FallbackEmployer(fallback_employers.a[i])])

EmployersFrameFixed(f) ==
    IF IsRaise(f.exc) THEN f
    ELSE WithList(f, "employers", ExtractEmployersFixed(f.cr_json))

\* normalize_report(r, sc) of main_fixed.py: no Scores section, accounts from
\* the trade list alone
normalize_report_fixed(r, sc) ==
    EmployersFrameFixed(
    PublicRecordsFrame(r,
    InquiriesFrameFixed(r,
    TradesFrame(r,
    PersonalInfoFrameFixed(
    NavigateFrame(
    BeginFrame(r, sc)))))))

----------------------------------------------------------------------------
(* Inputs *)

\* bounds of the inputs drawn in Init
MaxTrades == 2
MaxTradelines == 2
MaxBureauTradelines == 1
MaxScoreComps == 2

\* one-key dicts; their unions (@@) build the raw documents
K(key, v) == key :> v

Chars(c) == JStr(<<c>>)

\* the sequences over S of length at most n
SeqUpTo(S, n) == UNION {[1..m -> S] : m \in 0..n}

\* a bundle document, and its components
Doc(comps) == JObj(K("BundleComponents", JObj(K("BundleComponent", comps))))

MergeComp(tl) ==
    JObj([Type |-> JStr(MergeCreditReports), TrueLinkCreditReportType |-> tl])

BureauComp(sym, tradelines) ==
    JObj([Type |-> JStr(sym \o ReportV6),
          CreditReportType |-> JObj([Tradeline |-> tradelines])])

ScoreComp(type, cs) == JObj([Type |-> type, CreditScoreType |-> cs])

SourceOf(sym) == JObj([Bureau |-> JObj([symbol |-> sym])])

\* credit_report_json holding the bundle in rawReport, or as the outer document
CreditReport(where, comps) ==
    IF where = "rawReport" THEN JObj(K("rawReport", JsonText(Doc(comps))))
    ELSE Doc(comps)

Places == {"rawReport", "outer"}

---------------------------------------------------------------------------
(* Inputs: accounts from the three passes *)

\* a trade list entry as the trades endpoint gives it
Trade(name, number, bureau, balance) ==
    JObj([institution |-> JObj([name |-> name]), maskedAccountNumber |-> number,
          bureau |-> bureau, currentBalanceAmount |-> balance])

TradeValues ==
    {Trade(Chars("a"), Chars("1"), JStr(TUC), Chars("7")),
     Trade(Chars("a"), Chars("1"), JStr(EQF), Chars("8"))}

TradeLists == SeqUpTo(TradeValues, MaxTrades)

TradesDoc(ts) == JObj(K("trades", JArr(ts)))

\* a tradeline of the bundle partition
Tradeline(name, number, sym, balance) ==
    JObj([creditorName |-> name, accountNumber |-> number,
          Source |-> SourceOf(sym), currentBalance |-> balance])

TradelineValues ==
    {Tradeline(Chars("a"), Chars("1"), JStr(TUC), Chars("9")),
     Tradeline(JStr(<<"a", " ">>), Chars("1"), JStr(TUC), Chars("9")),
     Tradeline(Chars("a"), JInt(1), JStr(TUC), Chars("9")),
     Tradeline(Chars("a"), Chars("1"), JStr(EXP), Chars("9")),
     Tradeline(JStr(<<>>), Chars("1"), JStr(TUC), Chars("9"))}

TradelineLists == SeqUpTo(TradelineValues, MaxTradelines)

\* a tradeline of a per-bureau report
BureauTradelineValues ==
    {JObj([creditorName |-> Chars("a"), accountNumber |-> Chars("1"),
           currentBalance |-> Chars("5")]),
     JObj([creditorName |-> Chars("b"), accountNumber |-> JStr(<<" ">>),
           currentBalance |-> Chars("5")]),
     JObj([currentBalance |-> Chars("5")])}

BureauTradelineLists == SeqUpTo(BureauTradelineValues, MaxBureauTradelines)

AccountBundle(tls, bs) ==
    <<MergeComp(JObj([Borrower |-> JObj([BorrowerName |-> Chars("n")]),
                      TradeLinePartition |->
                          JArr(<<JObj([Tradeline |-> JArr(tls)])>>)])),
      BureauComp(TUC, JArr(bs))>>

AccountInput(ts, tls, bs, where) ==
    JObj(K("trades", TradesDoc(ts))
         @@ K("credit_report_json", CreditReport(where, JArr(AccountBundle(tls, bs)))))

\* every trade list with every partition, and with every bureau report beside
\* a partition of at most one tradeline
AccountInputs ==
    {AccountInput(ts, tls, <<>>, where) :
        ts \in TradeLists, tls \in TradelineLists, where \in Places}
    \cup {AccountInput(ts, tls, bs, where) :
              ts \in TradeLists, tls \in SeqUpTo(TradelineValues, 1),
              bs \in BureauTradelineLists, where \in Places}

---------------------------------------------------------------------------
(* Inputs: scores *)

ScoreCompValues ==
    {ScoreComp(JStr(TUC), JObj([riskScore |-> Chars("7")])),
     ScoreComp(JStr(EQF \o ReportV6), JObj([score |-> Chars("8")])),
     ScoreComp(JStr(TUC \o EQF), JObj([riskScore |-> JStr(<<>>), score |-> JInt(0)]))}

ScoreCompLists == SeqUpTo(ScoreCompValues, MaxScoreComps)

CreditScoreEntry(sym, v) == JObj([riskScore |-> v, Source |-> SourceOf(sym)])

\* the CreditScore field of the borrower: absent, a list, or one bare entry
CreditScoreFields ==
    {<<>>,
     K("CreditScore", JArr(<<CreditScoreEntry(JStr(EXP), Chars("4"))>>)),
     K("CreditScore", CreditScoreEntry(JStr(EXP), Chars("4")))}

\* score components sit in the outer document; the merged report with the
\* borrower sits in rawReport or in the outer document
ScoreInput(comps, csf, where) ==
    LET merge == MergeComp(JObj([Borrower |->
                     JObj(K("BorrowerName", Chars("n")) @@ csf)]))
        outer == IF where = "outer" THEN <<merge>> \o comps ELSE comps
        inner == K("rawReport", JsonText(Doc(JArr(<<merge>>))))
    IN JObj(K("credit_report_json",
              JObj(K("BundleComponents", JObj(K("BundleComponent", JArr(outer))))
                   @@ (IF where = "rawReport" THEN inner ELSE <<>>))))

ScoreInputs ==
    {ScoreInput(comps, csf, where) :
        comps \in ScoreCompLists, csf \in CreditScoreFields, where \in Places}

---------------------------------------------------------------------------
(* Inputs: fields that hold one object or an array of objects *)

\* list [x] when wrapped, the bare object x otherwise
W(wrapped, x) == IF wrapped THEN JArr(<<x>>) ELSE x

NameEntry ==
    JObj([NameType |-> JObj([abbreviation |-> JStr(Primary)]),
          Name |-> JObj([first |-> Chars("f"), last |-> Chars("l")])])

AddressEntry ==
    JObj([CreditAddress |-> JObj([unparsedStreet |-> Chars("s"), city |-> Chars("c")]),
          dateReported |-> Chars("d"), Source |-> SourceOf(JStr(TUC))])

InquiryEntry ==
    JObj([subscriberName |-> Chars("q"), inquiryDate |-> Chars("d"),
          inquiryType |-> Chars("t"), bureau |-> JStr(TUC)])

EmployerEntry == JObj([name |-> Chars("e"), dateReported |-> Chars("d")])

PublicRecordEntry ==
    JObj([type |-> Chars("t"), dateFiled |-> Chars("d"), status |-> Chars("o"),
          amount |-> Chars("3")])

\* credit_report_json whose rawReport holds a merged report with these
\* borrower fields and these further fields of TrueLinkCreditReportType
Merged(wrapped, borrower_fields, link_fields) ==
    JObj(K("credit_report_json",
           JObj(K("rawReport", JsonText(Doc(W(wrapped,
               MergeComp(JObj(K("Borrower",
                                JObj(K("ssn", Chars("9")) @@ borrower_fields))
                              @@ link_fields)))))))))

ShapeFields ==
    {"trades", "inquiries", "publicRecords", "BundleComponent",
     "TradeLinePartition", "Tradeline", "BureauTradeline", "InquiryPartition",
     "Inquiry", "Name", "BorrowerAddress", "Birth", "PreviousAddress",
     "CreditScore", "BorrowerInquiry", "Employer", "FallbackEmployer"}

\* the raw documents in which field holds the entry bare or as [entry]
ShapeInput(field, w) ==
    CASE field = "trades" ->
            JObj(K("trades", JObj(K("trades",
                W(w, Trade(Chars("a"), Chars("1"), JStr(TUC), Chars("7")))))))
      [] field = "inquiries" ->
            JObj(K("search_results", JObj(K("inquiries", W(w, InquiryEntry)))))
      [] field = "publicRecords" ->
            JObj(K("search_results", JObj(K("publicRecords", W(w, PublicRecordEntry)))))
      [] field = "BundleComponent" -> Merged(w, <<>>, <<>>)
      [] field = "TradeLinePartition" ->
            Merged(TRUE, <<>>, K("TradeLinePartition",
                W(w, JObj([Tradeline |-> JArr(<<Tradeline(Chars("a"), Chars("1"),
                                                          JStr(TUC), Chars("9"))>>)]))))
      [] field = "Tradeline" ->
            Merged(TRUE, <<>>, K("TradeLinePartition",
                JArr(<<JObj([Tradeline |-> W(w, Tradeline(Chars("a"), Chars("1"),
                                                          JStr(TUC), Chars("9")))])>>)))
      [] field = "BureauTradeline" ->
            JObj(K("credit_report_json", JObj(K("rawReport", JsonText(Doc(JArr(<<
                BureauComp(EQF, W(w, JObj([creditorName |-> Chars("a"),
                                           accountNumber |-> Chars("1")])))>>)))))))
      [] field = "InquiryPartition" ->
            Merged(TRUE, <<>>, K("InquiryPartition",
                                 W(w, JObj([Inquiry |-> InquiryEntry]))))
      [] field = "Inquiry" ->
            Merged(TRUE, <<>>, K("InquiryPartition",
                                 JArr(<<JObj([Inquiry |-> W(w, InquiryEntry)])>>)))
      [] field = "Name" -> Merged(TRUE, K("Name", W(w, NameEntry)), <<>>)
      [] field = "BorrowerAddress" ->
            Merged(TRUE, K("BorrowerAddress", W(w, AddressEntry)), <<>>)
      [] field = "Birth" ->
            Merged(TRUE, K("Birth", W(w, JObj([date |-> Chars("d")]))), <<>>)
      [] field = "PreviousAddress" ->
            Merged(TRUE, K("PreviousAddress", W(w, AddressEntry)), <<>>)
      [] field = "CreditScore" ->
            Merged(TRUE, K("CreditScore",
                           W(w, CreditScoreEntry(JStr(EXP), Chars("4")))), <<>>)
      [] field = "BorrowerInquiry" ->
            Merged(TRUE, K("Inquiry", W(w, InquiryEntry)), <<>>)
      [] field = "Employer" -> Merged(TRUE, K("Employer", W(w, EmployerEntry)), <<>>)
      [] field = "FallbackEmployer" ->
            JObj(K("credit_report_json",
                   JObj(K("Borrower", JObj(K("Employer", W(w, EmployerEntry)))))))

ShapeInputs == {ShapeInput(field, w) : field \in ShapeFields, w \in BOOLEAN}

---------------------------------------------------------------------------
(* Inputs: endpoint keys missing, present, or of an unexpected shape *)

EndpointKeys == {"search_results", "trades", "credit_report_json"}

\* a full bundle: merged report with borrower, partitions, a bureau report
FullBundle ==
    JArr(<<MergeComp(JObj([
               Borrower |-> JObj([Name |-> JArr(<<NameEntry>>),
                                  Employer |-> JArr(<<EmployerEntry>>),
                                  Inquiry |-> JArr(<<InquiryEntry>>),
                                  CreditScore |-> JArr(<<CreditScoreEntry(JStr(EXP),
                                                                           Chars("4"))>>)]),
               TradeLinePartition |-> JArr(<<JObj([Tradeline |->
                   Tradeline(Chars("b"), Chars("2"), JStr(EQF), Chars("9"))])>>),
               InquiryPartition |-> JArr(<<JObj([Inquiry |-> InquiryEntry])>>)])),
           BureauComp(EXP, JArr(<<JObj([creditorName |-> Chars("c"),
                                        accountNumber |-> Chars("3")])>>)),
           ScoreComp(JStr(TUC), JObj([riskScore |-> Chars("7")]))>>)

\* the well-formed documents an endpoint may hold
GoodValues(key) ==
    CASE key = "search_results" ->
            {JObj([inquiries |-> JArr(<<InquiryEntry>>),
                   publicRecords |-> JArr(<<PublicRecordEntry>>)]),
             EmptyDict}
      [] key = "trades" ->
            {TradesDoc(<<Trade(Chars("a"), Chars("1"), JStr(TUC), Chars("7"))>>),
             EmptyDict}
      [] key = "credit_report_json" ->
            {JObj(K("rawReport", JsonText(Doc(FullBundle)))
                  @@ K("BundleComponents",
                       JObj(K("BundleComponent",
                              ScoreComp(JStr(EQF), JObj([score |-> Chars("8")])))))),
             Doc(FullBundle)}

\* JSON values of another shape than the document expected
BadValues == {JNull, EmptyList, JArr(<<JInt(1)>>), Chars("s"), JInt(5)}

ExtraFields == {<<>>, K("statistics", JArr(<<JInt(1)>>))}

\* a raw mapping: a function from the keys present to their values
RawOf(present, val, extra) == JObj([key \in present |-> val[key]] @@ extra)

KeyInputs ==
    {RawOf(present, [search_results |-> sr, trades |-> tr, credit_report_json |-> cr],
           extra) :
        present \in SUBSET EndpointKeys,
        sr \in GoodValues("search_results"),
        tr \in GoodValues("trades"),
        cr \in GoodValues("credit_report_json"),
        extra \in ExtraFields}

\* one endpoint of an unexpected shape, the others well-formed or missing
BadKeyInputs ==
    {JObj(K(key, bad) @@ rest) :
        key \in EndpointKeys, bad \in BadValues,
        rest \in {<<>>,
                  K("trades", TradesDoc(<<Trade(Chars("a"), Chars("1"), JStr(TUC),
                                               Chars("7"))>>))}}

\* a non-object element inside a trade, component or inquiry list
BadElementInputs ==
    {JObj(K("trades", TradesDoc(<<JInt(1)>>))),
     JObj(K("trades", JObj(K("trades", JNull)))),
     JObj(K("credit_report_json", Doc(JArr(<<Chars("s")>>)))),
     JObj(K("credit_report_json", Doc(JNull))),
     JObj(K("search_results", JObj(K("inquiries", JArr(<<JNull>>))))),
     JObj(K("search_results", JObj(K("publicRecords", Chars("s")))))}

---------------------------------------------------------------------------
(* Inputs: amounts given to safe_number *)

AmountValues ==
    {JNull, JStr(<<>>), JStr(<<"a", "b", "c">>), JStr(<<"3", "7", "5">>),
     JInt(375), JInt(0), Chars("0"), JStr(<<" ", "1", "2", " ">>),
     JStr(<<" ">>), JStr(<<"1", " ", "2">>), JBig(400), EmptyList, EmptyDict}

AmountInput(v) ==
    JObj(K("search_results",
           JObj(K("publicRecords", JArr(<<JObj([type |-> Chars("t"), amount |-> v])>>)))))

AmountInputs == {AmountInput(v) : v \in AmountValues}

---------------------------------------------------------------------------
(* Inputs: a rawReport payload that is no JSON text *)

BadPayloads == {JStr(<<"a", "b">>), JStr(<<"0", "7">>), JStr(<<"a", " ", "1">>)}

OtherPayloads == {JStr(<<>>), Chars("7"), JsonText(Doc(FullBundle))}

\* the outer documents the payload comes with
OuterDocs ==
    {<<>>,
     K("BundleComponents", JObj(K("BundleComponent", FullBundle))),
     K("BundleComponents", JObj(K("BundleComponent",
         JArr(<<MergeComp(JObj([Borrower |-> JObj([BorrowerName |-> Chars("n")])]))>>)))),
     K("BundleComponents", JObj(K("BundleComponent",
         JArr(<<ScoreComp(JStr(TUC), JObj([riskScore |-> Chars("7")]))>>)))),
     K("Borrower", JObj(K("Employer", EmployerEntry)))}

PayloadInput(payload, outer, ts) ==
    JObj(K("credit_report_json", JObj(K("rawReport", payload) @@ outer))
         @@ K("trades", TradesDoc(ts)))

PayloadInputs ==
    {PayloadInput(payload, outer, ts) :
        payload \in BadPayloads \cup OtherPayloads, outer \in OuterDocs,
        ts \in SeqUpTo(TradeValues, 1)}

---------------------------------------------------------------------------
(* Inputs: the trade list alone, with the entry of the example *)

ChaseBank == <<"C", "h", "a", "s", "e", " ", "B", "a", "n", "k">>

MaskedNumber ==
    <<"4", "3", "8", "8", "5", "4", "X", "X", "X", "X", "X", "X", "X", "X", "X", "X">>

\* Chase Bank / 438854XXXXXXXXXX / TUC / "887"
ExampleTrade ==
    Trade(JStr(ChaseBank), JStr(MaskedNumber), JStr(TUC), JStr(<<"8", "8", "7">>))

TradeOnlyInputs ==
    {JObj(K("trades", TradesDoc(ts))) :
        ts \in SeqUpTo(TradeValues \cup {ExampleTrade}, MaxTrades)}

---------------------------------------------------------------------------
(* Inputs: one account from one pass, with chosen amounts, candidate keys
   and dates *)

Passes == {"trades", "partition", "bureau"}

LaterPasses == {"partition", "bureau"}

\* the raw document whose only account is built by pass from an entry that
\* holds fields beside its name, number and bureau
OneAccountInput(pass, fields) ==
    CASE pass = "trades" ->
            JObj(K("trades", TradesDoc(<<JObj(fields @@
                [institution |-> JObj([name |-> Chars("a")]),
                 maskedAccountNumber |-> Chars("1"), bureau |-> JStr(TUC)])>>)))
      [] pass = "partition" ->
            AccountInput(<<>>, <<JObj(fields @@
                [creditorName |-> Chars("a"), accountNumber |-> Chars("1"),
                 Source |-> SourceOf(JStr(TUC))])>>, <<>>, "rawReport")
      [] pass = "bureau" ->
            AccountInput(<<>>, <<>>, <<JObj(fields @@
                [creditorName |-> Chars("a"), accountNumber |-> Chars("1")])>>,
                "rawReport")

\* source amounts: null, empty, no number, zero in three forms, a number
AccountAmounts ==
    {JNull, JStr(<<>>), JStr(<<"a", "b", "c">>), Chars("0"), JInt(0), JFloat(0),
     JStr(<<"3", "7", "5">>), JInt(375)}

\* every amount key the pass reads holds v
AmountFieldsOf(pass, v) ==
    IF pass = "trades"
    THEN [currentBalanceAmount |-> v, creditLimitAmount |-> v,
          highCreditAmount |-> v, termsMonthlyPayment |-> v]
    ELSE [currentBalance |-> v, creditLimit |-> v, highBalance |-> v]

AmountAccountInput(pass, v) == OneAccountInput(pass, AmountFieldsOf(pass, v))

AmountAccountInputs ==
    {AmountAccountInput(pass, v) : pass \in Passes, v \in AccountAmounts}

\* the value under the first candidate key of a field
FirstValues == {JNull, JStr(<<>>), JInt(0), Chars("4")}

\* v under the first candidate key, a string under a later candidate key
CandidateFields(v) ==
    [currentBalance |-> v, balanceAmount |-> Chars("5"),
     accountType |-> v, accountTypeDescription |-> Chars("6"),
     accountNumber |-> v, maskedAccountNumber |-> Chars("2"),
     creditorName |-> v, subscriberName |-> Chars("s")]

CandidateInput(pass, v) == OneAccountInput(pass, CandidateFields(v))

CandidateInputs == {CandidateInput(pass, v) : pass \in LaterPasses, v \in FirstValues}

IsoDate == <<"2", "0", "2", "1", "-", "0", "7", "-", "1", "1">>

NoSuchDate == <<"2", "0", "2", "1", "-", "1", "3", "-", "4", "5">>

ShortDate == <<"2", "0", "2", "1", "-", "7", "-", "1">>

ReadableDate == <<"J", "u", "l", " ", "1", "1", ",", " ", "2", "0", "2", "1">>

DateValues == {JStr(IsoDate), JStr(NoSuchDate), JStr(ShortDate), JStr(ReadableDate)}

DateInput(pass, d) == OneAccountInput(pass, [dateOpened |-> d, dateClosed |-> d])

DateInputs == {DateInput(pass, d) : pass \in LaterPasses, d \in DateValues}

---------------------------------------------------------------------------
(* Inputs: inquiries and employers from every source *)

MaxInquiries == 2
MaxEmployers == 2

\* an inquiry every source turns into the same record
SourcedInquiry ==
    JObj([subscriberName |-> Chars("q"), inquiryDate |-> Chars("d"),
          inquiryType |-> Chars("t"), bureau |-> JStr(TUC),
          Source |-> JObj([Bureau |-> JObj([description |-> JStr(TUC)])])])

OtherInquiry ==
    JObj([subscriberName |-> Chars("r"), inquiryDate |-> Chars("d"),
          inquiryType |-> Chars("t"), bureau |-> JStr(EQF)])

InquiryLists == SeqUpTo({SourcedInquiry, OtherInquiry}, MaxInquiries)

\* partition items: with an Inquiry, and with an empty one
InquiryItemLists ==
    SeqUpTo({JObj([Inquiry |-> SourcedInquiry]), JObj([Inquiry |-> EmptyDict])},
            MaxInquiries)

BorrowerInquiryLists == SeqUpTo({SourcedInquiry}, MaxInquiries)

\* the borrower and the outer document hold one employer each, the same one
InquiryInput(qs, items, bqs, where) ==
    JObj(K("search_results", JObj(K("inquiries", JArr(qs))))
         @@ K("credit_report_json",
              JObj(K("Borrower", JObj(K("Employer", JArr(<<EmployerEntry>>))))
                   @@ CreditReport(where, JArr(<<
                          MergeComp(JObj([Borrower |->
                                              JObj([BorrowerName |-> Chars("n"),
                                                    Inquiry |-> JArr(bqs),
                                                    Employer |-> EmployerEntry]),
                                          InquiryPartition |-> JArr(items)]))>>)).f)))

InquiryInputs ==
    {InquiryInput(qs, items, bqs, where) :
        qs \in InquiryLists, items \in InquiryItemLists,
        bqs \in BorrowerInquiryLists, where \in Places}

OtherEmployer == JObj([name |-> Chars("f"), dateUpdated |-> Chars("u")])

EmployerLists == SeqUpTo({EmployerEntry, OtherEmployer}, MaxEmployers)

\* employers of the located borrower, and of Borrower in the outer document
EmployerInput(es, fes, where) ==
    JObj(K("credit_report_json",
           JObj(K("Borrower", JObj(K("Employer", JArr(fes))))
                @@ CreditReport(where, JArr(<<
                       MergeComp(JObj([Borrower |->
                           JObj([BorrowerName |-> Chars("n"),
                                 Employer |-> JArr(es)])]))>>)).f)))

EmployerInputs ==
    {EmployerInput(es, fes, where) :
        es \in EmployerLists, fes \in EmployerLists, where \in Places}

---------------------------------------------------------------------------
(* Inputs: the borrower's Name array *)

MaxNames == 2

AlsoKnownAs == <<"A", "l", "s", "o">>

\* an element of the Name array: its type marker and its name object
NameOfType(abbreviation, name_data) ==
    JObj([NameType |-> JObj([abbreviation |-> JStr(abbreviation)]),
          Name |-> name_data])

NameValues ==
    {NameEntry,
     NameOfType(AlsoKnownAs, JObj([first |-> Chars("a"), middle |-> Chars("m"),
                                   last |-> Chars("b")])),
     NameOfType(Primary, EmptyDict)}

NameLists == SeqUpTo(NameValues, MaxNames)

\* a borrower without BorrowerName whose Name field is the array ns
NameInput(ns) == Merged(TRUE, K("Name", JArr(ns)), <<>>)

NameInputs == {NameInput(ns) : ns \in NameLists}

---------------------------------------------------------------------------
(* Inputs: a borrower block in rawReport, in the outer document, or in both *)

\* the borrower of the rawReport bundle and the borrower of the outer bundle
\* differ in every personal field
InnerBorrower == JObj([BorrowerName |-> Chars("n"), ssn |-> Chars("9")])

OuterBorrower ==
    JObj([BorrowerName |-> Chars("m"), Birth |-> JObj([date |-> Chars("d")]),
          SocialSecurityNumber |-> Chars("8")])

\* a bundle that is held with these components, or is not held at all
Held(comps) == [held |-> TRUE, comps |-> comps]

NotHeld == [held |-> FALSE, comps |-> <<>>]

\* no bundle, or a bundle whose components are: none, a merged report without
\* a borrower, with an empty borrower, or with the borrower b
BorrowerBundles(b) ==
    {NotHeld,
     Held(<<>>),
     Held(<<MergeComp(EmptyDict)>>),
     Held(<<MergeComp(JObj([Borrower |-> EmptyDict]))>>),
     Held(<<MergeComp(JObj([Borrower |-> b]))>>)}

\* credit_report_json with the bundle inner in rawReport and the bundle outer
\* as the outer document
BorrowerInput(inner, outer) ==
    JObj(K("credit_report_json",
           JObj((IF inner.held THEN K("rawReport", JsonText(Doc(JArr(inner.comps))))
                 ELSE <<>>)
                @@ (IF outer.held THEN Doc(JArr(outer.comps)).f ELSE <<>>))))

BorrowerInputs ==
    {BorrowerInput(inner, outer) :
        inner \in BorrowerBundles(InnerBorrower),
        outer \in BorrowerBundles(OuterBorrower)}

---------------------------------------------------------------------------
(* Inputs: one bundle, held in rawReport or as the outer document *)

\* a merged report, a per-bureau report with one tradeline and a typed score
\* component
PlacedBundle ==
    JArr(<<MergeComp(JObj([Borrower |-> JObj([BorrowerName |-> Chars("n")])])),
           BureauComp(EXP, JArr(<<JObj([creditorName |-> Chars("c"),
                                        accountNumber |-> Chars("3")])>>)),
           ScoreComp(JStr(TUC), JObj([riskScore |-> Chars("7")]))>>)

PlacementInput(where) == JObj(K("credit_report_json", CreditReport(where, PlacedBundle)))

PlacementInputs == {PlacementInput(where) : where \in Places}

---------------------------------------------------------------------------
(* Inputs: the bureau tokens of one structured score *)

Other == <<"V", "a", "n", "t", "a", "g", "e">>

\* component types naming no token, one token, or two tokens in either order
TokenTypes ==
    {TUC, EQF, EXP, Other, EQF \o TUC, TUC \o EQF, EXP \o EQF, EXP \o TUC,
     EXP \o EQF \o TUC}

\* a score value that is a score, empty, or missing
TokenValues == {Chars("3"), JStr(<<>>), JNull}

\* the outer document holds one score component of this type and value
TokenInput(type, v) ==
    JObj(K("credit_report_json",
           Doc(JArr(<<ScoreComp(JStr(type), JObj([riskScore |-> v]))>>))))

\* the borrower of rawReport holds one CreditScore entry of this bureau symbol
SymbolInput(sym, v) ==
    Merged(TRUE, K("CreditScore", JArr(<<CreditScoreEntry(JStr(sym), v)>>)), <<>>)

TokenInputs ==
    {TokenInput(type, v) : type \in TokenTypes, v \in TokenValues}
    \cup {SymbolInput(sym, v) : sym \in {TUC, EQF, EXP, Other}, v \in TokenValues}

---------------------------------------------------------------------------

OneOverride == ODict(<<[key |-> TransUnion, val |-> Chars("6")]>>)

ScoreOverrides ==
    {JNull,
     ODict(<<>>),
     OneOverride,
     ODict(<<[key |-> Experian, val |-> Chars("5")],
             [key |-> TransUnion, val |-> Chars("6")]>>)}

\* the calls made: raw documents and the scoreOverride argument
Calls ==
    (AccountInputs \X {JNull})
    \cup (ScoreInputs \X ScoreOverrides)
    \cup (ShapeInputs \X {JNull})
    \cup (KeyInputs \X {JNull, OneOverride})
    \cup (BadKeyInputs \X {JNull})
    \cup (BadElementInputs \X {JNull})
    \cup (AmountInputs \X {JNull})
    \cup (PayloadInputs \X {JNull, OneOverride})
    \cup (TradeOnlyInputs \X {JNull})
    \cup (AmountAccountInputs \X {JNull})
    \cup (CandidateInputs \X {JNull})
    \cup (DateInputs \X {JNull})
    \cup (InquiryInputs \X {JNull})
    \cup (EmployerInputs \X {JNull})
    \cup (NameInputs \X {JNull})
    \cup (BorrowerInputs \X {JNull})
    \cup (PlacementInputs \X {JNull, OneOverride})
    \cup (TokenInputs \X {JNull, OneOverride})

----------------------------------------------------------------------------
(* The state machine: one action per section of normalize_report *)

Frame ==
    [normalized |-> normalized, scores |-> scores, cr_json |-> cr_json,
     raw_report_str |-> raw_report_str, borrower |-> borrower,
     true_link |-> true_link, exc |-> exc]

\* the locals become those of frame f; an exception ends the call
Becomes(f, next) ==
    /\ normalized' = f.normalized
    /\ scores' = f.scores
    /\ cr_json' = f.cr_json
    /\ raw_report_str' = f.raw_report_str
    /\ borrower' = f.borrower
    /\ true_link' = f.true_link
    /\ exc' = f.exc
    /\ pc' = IF IsRaise(f.exc) THEN "raised" ELSE next
    /\ UNCHANGED <<raw, call, first, given, fixed>>
    /\ UNCHANGED main_vars

Init ==
    /\ \E c \in Calls : raw = c[1] /\ scores = c[2]
    /\ normalized = JNull
    /\ cr_json = JNull
    /\ raw_report_str = JNull
    /\ borrower = JNull
    /\ true_link = JNull
    /\ exc = JNull
    /\ pc = "begin"
    /\ call = 1
    /\ first = JNull
    /\ given = scores
    /\ at = "normalize"
    /\ aggregated = raw
    /\ browser = "closed"
    /\ landed = "yes"
    /\ requested = <<>>
    /\ files = <<>>
    /\ fixed = JNull

Begin == pc = "begin" /\ Becomes(BeginFrame(raw, scores), "navigate")

Navigate == pc = "navigate" /\ Becomes(NavigateFrame(Frame), "personal_info")

PersonalInfoStep == pc = "personal_info" /\ Becomes(PersonalInfoFrame(Frame), "scores")

ScoresStep == pc = "scores" /\ Becomes(ScoresFrame(Frame), "trades")

TradesStep == pc = "trades" /\ Becomes(TradesFrame(raw, Frame), "partition")

PartitionStep == pc = "partition" /\ Becomes(PartitionFrame(Frame), "bureau")

BureauStep == pc = "bureau" /\ Becomes(BureauFrame(Frame), "inquiries")

InquiriesStep == pc = "inquiries" /\ Becomes(InquiriesFrame(raw, Frame), "public_records")

PublicRecordsStep ==
    pc = "public_records" /\ Becomes(PublicRecordsFrame(raw, Frame), "employers")

EmployersStep == pc = "employers" /\ Becomes(EmployersFrame(Frame), "done")

\* the caller keeps the report and calls again with the same raw documents and
\* the same scoreOverride object; given is the value that object had when the
\* first call was made
CallAgain ==
    /\ pc = "done"
    /\ call = 1
    /\ first' = normalized
    /\ call' = 2
    /\ pc' = "begin"
    /\ UNCHANGED <<raw, scores, normalized, cr_json, raw_report_str, borrower,
                   true_link, exc, given, fixed>>
    /\ UNCHANGED main_vars

Next ==
    \/ Begin
    \/ Navigate
    \/ PersonalInfoStep
    \/ ScoresStep
    \/ TradesStep
    \/ PartitionStep
    \/ BureauStep
    \/ InquiriesStep
    \/ PublicRecordsStep
    \/ EmployersStep
    \/ CallAgain

Spec == Init /\ [][Next]_vars

----------------------------------------------------------------------------
(* main(): src/main.py 731-848 *)

\* lines 45-50: the endpoint keys, in the order the dict holds them
ENDPOINTS == <<"search_results", "statistics", "trades", "credit_report_json">>

\* lines 39-41: the output paths
NORMALIZED_JSON == "data/smartcredit_normalized.json"
ACCOUNTS_CSV == "data/smartcredit_accounts.csv"
SCORES_CSV == "data/smartcredit_scores.csv"

\* a body that is no JSON, and the message of an exception
BodyText == JStr(<<"<", "h", "t", "m", "l", ">">>)
ErrorText == JStr(<<"t", "i", "m", "e", "o", "u", "t">>)

\* the status of a response that is not ok
NotOkStatus == JInt(500)

\* the credit report document whose only scores are CreditScore entries of the
\* borrower of rawReport
ScoresInRawReport ==
    JObj(K("rawReport", JsonText(Doc(JArr(<<MergeComp(JObj([Borrower |->
        JObj([BorrowerName |-> Chars("n"),
              CreditScore |-> JArr(<<CreditScoreEntry(JStr(TUC), Chars("7"))>>)])]))>>)))))

\* the JSON bodies an endpoint may answer with
Bodies(key) ==
    CASE key = "search_results" ->
            {JObj([inquiries |-> JArr(<<InquiryEntry>>),
                   publicRecords |-> JArr(<<PublicRecordEntry>>)])}
      [] key = "statistics" -> {JObj([total |-> JInt(1)])}
      [] key = "trades" ->
            {TradesDoc(<<Trade(Chars("a"), Chars("1"), JStr(TUC), Chars("7"))>>)}
      [] key = "credit_report_json" ->
            {ScoresInRawReport,
             Doc(FullBundle),
             JObj(K("rawReport", JsonText(Doc(FullBundle)))),
             Doc(JArr(<<Chars("s")>>))}

\* what one request can come to: an ok response with a JSON body, an ok
\* response whose body is no JSON, a response that is not ok, an exception
Outcomes(key) ==
    {[kind |-> "json", data |-> d] : d \in Bodies(key)}
    \cup {[kind |-> "raw_text", data |-> BodyText],
          [kind |-> "http_status", data |-> BodyText],
          [kind |-> "exception", data |-> ErrorText]}

\* lines 762-775: the value stored for one request
Entry(outcome) ==
    CASE outcome.kind = "json" -> outcome.data
      [] outcome.kind = "raw_text" -> JObj(K("__raw_text", outcome.data))
      [] outcome.kind = "http_status" ->
            JObj(K("__http_status", NotOkStatus) @@ K("__error", outcome.data))
      [] outcome.kind = "exception" -> JObj(K("__error_exception", outcome.data))

\* a variant of lines 773-775 that stores nothing when the request raises
StoreUnlessRaised(agg, key, outcome) ==
    IF outcome.kind = "exception" THEN agg
    ELSE JObj(K(key, Entry(outcome)) @@ agg.f)

\* aggregated[key] = ...
Store(agg, key, outcome) == JObj(K(key, Entry(outcome)) @@ agg.f)

\* the texts of the three score headings of the credit report page
PageTexts ==
    {[tu |-> <<" ", "7">>, exp |-> <<"8">>, eqf |-> <<"9", " ">>],
     [tu |-> <<>>, exp |-> <<>>, eqf |-> <<>>]}

\* lines 786-790: the scores scraped from the page
ScrapedScores(t) ==
    ODict(<<[key |-> TransUnion, val |-> JStr(strip(t.tu))],
            [key |-> Experian, val |-> JStr(strip(t.exp))],
            [key |-> Equifax, val |-> JStr(strip(t.eqf))]>>)

\* lines 794-812: the scores of the outer bundle components of the credit
\* report document, written into scores; the loop is that of lines 282-296
FallbackScores(agg, sc) ==
    IF "credit_report_json" \in DOMAIN agg.f
    THEN BundleScores(agg.f.credit_report_json, sc)
    ELSE [scores |-> sc, exc |-> JNull]

\* nothing of normalize_report runs while main() is elsewhere
report_vars ==
    <<raw, normalized, cr_json, raw_report_str, borrower, true_link, pc, exc,
      call, first, given, fixed>>

\* lines 732-733: aggregated = {}, scores = {}
MainInit ==
    /\ at = "launch"
    /\ aggregated = EmptyDict
    /\ scores = ODict(<<>>)
    /\ browser = "none"
    /\ landed = "pending"
    /\ requested = <<>>
    /\ files = <<>>
    /\ raw = JNull
    /\ normalized = JNull
    /\ cr_json = JNull
    /\ raw_report_str = JNull
    /\ borrower = JNull
    /\ true_link = JNull
    /\ exc = JNull
    /\ pc = "idle"
    /\ call = 0
    /\ first = JNull
    /\ given = JNull
    /\ fixed = JNull

\* lines 736-738
Launch ==
    /\ at = "launch"
    /\ browser' = "open"
    /\ at' = "login"
    /\ UNCHANGED <<scores, aggregated, landed, requested, files>>
    /\ UNCHANGED report_vars

\* lines 740-748: the login form is filled and submitted
Login ==
    /\ at = "login"
    /\ at' = "wait"
    /\ UNCHANGED <<scores, aggregated, browser, landed, requested, files>>
    /\ UNCHANGED report_vars

\* lines 750-752: the dashboard URL is reached in time
WaitLanded ==
    /\ at = "wait"
    /\ landed' = "yes"
    /\ at' = "fetch"
    /\ UNCHANGED <<scores, aggregated, browser, requested, files>>
    /\ UNCHANGED report_vars

\* a variant of lines 753-756 that closes the browser and goes on
WaitFailedGoesOn ==
    /\ at = "wait"
    /\ landed' = "no"
    /\ browser' = "closed"
    /\ at' = "fetch"
    /\ UNCHANGED <<scores, aggregated, requested, files>>
    /\ UNCHANGED report_vars

\* lines 753-756: wait_for_url raises; browser.close(), return
WaitFailed ==
    /\ at = "wait"
    /\ landed' = "no"
    /\ browser' = "closed"
    /\ at' = "returned"
    /\ UNCHANGED <<scores, aggregated, requested, files>>
    /\ UNCHANGED report_vars

\* lines 759-775: one turn of the loop over ENDPOINTS
Fetch ==
    /\ at = "fetch"
    /\ LET key == ENDPOINTS[Len(requested) + 1] IN
       /\ \E outcome \in Outcomes(key) :
             aggregated' = Store(aggregated, key, outcome)
       /\ requested' = Append(requested, key)
    /\ at' = IF Len(requested) + 1 = Len(ENDPOINTS) THEN "goto" ELSE "fetch"
    /\ UNCHANGED <<scores, browser, landed, files>>
    /\ UNCHANGED report_vars

\* lines 778-779
GotoReport ==
    /\ at = "goto"
    /\ at' = "scrape"
    /\ UNCHANGED <<scores, aggregated, browser, landed, requested, files>>
    /\ UNCHANGED report_vars

\* lines 781-790: the three headings are read
Scrape ==
    /\ at = "scrape"
    /\ \E t \in PageTexts : scores' = ScrapedScores(t)
    /\ at' = "close"
    /\ UNCHANGED <<aggregated, browser, landed, requested, files>>
    /\ UNCHANGED report_vars

\* lines 791-814: reading a heading raises; an exception of the fallback
\* leaves main() through the with block
ScrapeFailed ==
    /\ at = "scrape"
    /\ LET r == FallbackScores(aggregated, scores) IN
       /\ scores' = r.scores
       /\ at' = IF IsRaise(r.exc) THEN "failed" ELSE "close"
       /\ browser' = IF IsRaise(r.exc) THEN "closed" ELSE browser
    /\ UNCHANGED <<aggregated, landed, requested, files>>
    /\ UNCHANGED report_vars

\* line 816
CloseBrowser ==
    /\ at = "close"
    /\ browser' = "closed"
    /\ at' = "normalize"
    /\ UNCHANGED <<scores, aggregated, landed, requested, files>>
    /\ UNCHANGED report_vars

\* line 819: normalize_report(aggregated, scores) is entered
Call ==
    /\ at = "normalize"
    /\ pc = "idle"
    /\ raw' = aggregated
    /\ given' = scores
    /\ call' = 1
    /\ pc' = "begin"
    /\ UNCHANGED <<scores, normalized, cr_json, raw_report_str, borrower,
                   true_link, exc, first, fixed>>
    /\ UNCHANGED main_vars

\* line 819: an exception of normalize_report leaves main()
CallRaised ==
    /\ at = "normalize"
    /\ pc = "raised"
    /\ at' = "failed"
    /\ UNCHANGED <<scores, aggregated, browser, landed, requested, files>>
    /\ UNCHANGED report_vars

\* lines 819-824: the report returned is written as JSON
WriteJson ==
    /\ at = "normalize"
    /\ pc = "done"
    /\ files' = (NORMALIZED_JSON :> normalized) @@ files
    /\ at' = "accounts_csv"
    /\ UNCHANGED <<scores, aggregated, browser, landed, requested>>
    /\ UNCHANGED report_vars

\* lines 827-832: if normalized["accounts"]
WriteAccountsCsv ==
    /\ at = "accounts_csv"
    /\ files' = IF normalized.accounts # <<>>
                THEN (ACCOUNTS_CSV :> normalized.accounts) @@ files
                ELSE files
    /\ at' = "scores_csv"
    /\ UNCHANGED <<scores, aggregated, browser, landed, requested>>
    /\ UNCHANGED report_vars

\* lines 835-845: if scores
WriteScoresCsv ==
    /\ at = "scores_csv"
    /\ files' = IF OverrideTruthy(scores) THEN (SCORES_CSV :> scores) @@ files
                ELSE files
    /\ at' = "returned"
    /\ UNCHANGED <<scores, aggregated, browser, landed, requested>>
    /\ UNCHANGED report_vars

MainNext ==
    \/ Launch
    \/ Login
    \/ WaitLanded
    \/ WaitFailed
    \/ Fetch
    \/ GotoReport
    \/ Scrape
    \/ ScrapeFailed
    \/ CloseBrowser
    \/ Call
    \/ Begin
    \/ Navigate
    \/ PersonalInfoStep
    \/ ScoresStep
    \/ TradesStep
    \/ PartitionStep
    \/ BureauStep
    \/ InquiriesStep
    \/ PublicRecordsStep
    \/ EmployersStep
    \/ CallRaised
    \/ WriteJson
    \/ WriteAccountsCsv
    \/ WriteScoresCsv

MainSpec == MainInit /\ [][MainNext]_vars

----------------------------------------------------------------------------
(* The two normalize_report functions on the same arguments *)

\* the credit_report_json field of raw: absent, empty, of another type, or a
\* report
CreditReportFields ==
    {<<>>,
     K("credit_report_json", EmptyDict),
     K("credit_report_json", JNull),
     K("credit_report_json", JStr(<<>>)),
     K("credit_report_json", EmptyList),
     K("credit_report_json", Doc(FullBundle)),
     K("credit_report_json", JObj(K("rawReport", JsonText(Doc(FullBundle))))),
     K("credit_report_json",
       JObj(K("Borrower", JObj(K("Employer", JArr(<<EmployerEntry>>))))))}

TradesFields ==
    {<<>>, K("trades", TradesDoc(<<JInt(1)>>))}
    \cup {K("trades", TradesDoc(ts)) : ts \in TradeLists}

SearchFields ==
    {<<>>,
     K("search_results", JObj([inquiries |-> JArr(<<InquiryEntry, InquiryEntry>>),
                               publicRecords |-> JArr(<<PublicRecordEntry>>)])),
     K("search_results", JObj([inquiries |-> InquiryEntry,
                               publicRecords |-> PublicRecordEntry]))}

BothInputs ==
    {JObj(cr @@ tr @@ sr) :
        cr \in CreditReportFields, tr \in TradesFields, sr \in SearchFields}

BothInit ==
    /\ \E r \in BothInputs : \E sc \in ScoreOverrides : raw = r /\ scores = sc
    /\ normalized = JNull
    /\ cr_json = JNull
    /\ raw_report_str = JNull
    /\ borrower = JNull
    /\ true_link = JNull
    /\ exc = JNull
    /\ pc = "begin"
    /\ call = 1
    /\ first = JNull
    /\ given = scores
    /\ at = "normalize"
    /\ aggregated = raw
    /\ browser = "closed"
    /\ landed = "yes"
    /\ requested = <<>>
    /\ files = <<>>
    /\ fixed = JNull

\* normalize_report of main_fixed.py is called with the same raw documents and
\* a scoreOverride equal to the one the first call was given
CallFixed ==
    /\ pc \in {"done", "raised"}
    /\ fixed = JNull
    /\ fixed' = normalize_report_fixed(raw, given)
    /\ UNCHANGED <<raw, scores, normalized, cr_json, raw_report_str, borrower,
                   true_link, pc, exc, call, first, given>>
    /\ UNCHANGED main_vars

BothNext ==
    \/ Begin
    \/ Navigate
    \/ PersonalInfoStep
    \/ ScoresStep
    \/ TradesStep
    \/ PartitionStep
    \/ BureauStep
    \/ InquiriesStep
    \/ PublicRecordsStep
    \/ EmployersStep
    \/ CallFixed

BothSpec == BothInit /\ [][BothNext]_vars

----------------------------------------------------------------------------
(* Properties of the report, C1 - C5: accounts and scores *)

\* (maskedAccountNumber, institution.name, bureau) of an output account
AccountKey(a) ==
    <<Get(a, "maskedAccountNumber"), Get(Get(a, "institution"), "name"),
      Get(a, "bureau")>>

\* the positions of the output accounts that carry key
WithKey(key) ==
    {j \in 1..Len(normalized.accounts) : AccountKey(normalized.accounts[j]) = key}

\* C1: after normalize_report returns, no two distinct entries of the output
\* accounts have equal maskedAccountNumber, institution.name and bureau
C1_NoTwoAccountsShareKey ==
    pc = "done" =>
        \A i, j \in 1..Len(normalized.accounts) :
            AccountKey(normalized.accounts[i]) = AccountKey(normalized.accounts[j])
                => i = j

\* the entries of the primary trade list of raw
TradeEntries == TradeList(raw).a

\* the trade list itself holds no two entries with one key
NoRepeatedTrade ==
    \A i, j \in 1..Len(TradeEntries) :
        AccountKey(TradeAccount(TradeEntries[i])) = AccountKey(TradeAccount(TradeEntries[j]))
            => i = j

\* the keys of the accounts the bundle partition describes
PartitionKeys ==
    LET items == Iter(WrapDict(GetD(true_link, "TradeLinePartition", EmptyList))).a
    IN UNION {{AccountKey(TradelineCandidate(Tradelines(items[i]).a[n], items[i]).acct) :
                  n \in 1..Len(Tradelines(items[i]).a)} : i \in 1..Len(items)}

\* C2: a trade-list account whose key matches a tradeline of the bundle
\* partition appears exactly once in the output, with the fields built from
\* the trade-list entry (stated for trade lists that hold no key twice)
C2_TradeListVersionWins ==
    pc = "done" /\ call = 1 /\ raw \in AccountInputs /\ NoRepeatedTrade =>
        \A i \in 1..Len(TradeEntries) :
            LET a == TradeAccount(TradeEntries[i]) IN
            AccountKey(a) \in PartitionKeys =>
                /\ Cardinality(WithKey(AccountKey(a))) = 1
                /\ \A j \in WithKey(AccountKey(a)) : normalized.accounts[j] = a

\* the marker of a bureau in component types and bureau symbols
Marker(key) ==
    IF key = TransUnion THEN TUC ELSE IF key = Equifax THEN EQF ELSE EXP

\* the components of the outer bundle of cr_json
OuterComponents ==
    IF IsDict(cr_json)
    THEN Iter(WrapDict(GetD(Or(Get(cr_json, "BundleComponents"), EmptyDict),
                            "BundleComponent", EmptyList))).a
    ELSE <<>>

\* the CreditScore entries of the located borrower
BorrowerCreditScores ==
    IF IsDict(borrower)
    THEN Iter(WrapDict(GetD(borrower, "CreditScore", EmptyList))).a
    ELSE <<>>

\* a structured score for the bureau is supplied: a bundle component
\* CreditScoreType score, or a borrower CreditScore entry
StructuredScore(key) ==
    \/ \E i \in 1..Len(OuterComponents) :
          LET comp == OuterComponents[i]
              cs == Or(Get(comp, "CreditScoreType"), EmptyDict)
          IN /\ IsStr(Get(comp, "Type"))
             /\ Contains(Get(comp, "Type").s, Marker(key))
             /\ Truthy(Or(Get(cs, "riskScore"), Get(cs, "score")))
    \/ \E i \in 1..Len(BorrowerCreditScores) :
          LET e == BorrowerCreditScores[i] IN
          /\ Truthy(Get(e, "riskScore"))
          /\ Get(GetD(GetD(e, "Source", EmptyDict), "Bureau", EmptyDict), "symbol")
                 = JStr(Marker(key))

\* C3: for every bureau with both a structured score and a scoreOverride value,
\* the output score is the override value
C3_OverrideWins ==
    pc = "done" /\ call = 1 /\ OverrideTruthy(given) =>
        \A key \in Keys(given) :
            StructuredScore(key) => Lookup(normalized.scores, key) = Lookup(given, key)

\* the raw documents hold no structured score at all
NoStructuredScore ==
    /\ \A i \in 1..Len(OuterComponents) :
          ~(IsDict(OuterComponents[i])
            /\ "CreditScoreType" \in DOMAIN OuterComponents[i].f)
    /\ ~(IsDict(borrower) /\ "CreditScore" \in DOMAIN borrower.f)

\* C4: with a scoreOverride and no structured score in the raw documents, the
\* output scores are the override: same keys, same values, no other bureau
C4_OverrideAloneIsTheScores ==
    pc = "done" /\ call = 1 /\ OverrideTruthy(given) /\ NoStructuredScore =>
        normalized.scores = given

\* a call with a two-bureau override and no structured score has returned
C4_Witness ==
    /\ pc = "done" /\ call = 1
    /\ OverrideTruthy(given)
    /\ Keys(given) = {Experian, TransUnion}
    /\ NoStructuredScore
    /\ IsDict(borrower)
    /\ normalized.scores = given

\* C5: the second call with the same raw documents and the same scoreOverride
\* object returns a report equal to the first in every field and element order
C5_SecondCallSameReport ==
    pc = "done" /\ call = 2 => normalized = first

\* the second call has returned, and the first had written structured scores
\* into the caller's scoreOverride dict
C5_Witness ==
    /\ pc = "done" /\ call = 2
    /\ OverrideTruthy(given)
    /\ scores # given
    /\ normalized.accounts = first.accounts
    /\ normalized.scores = first.scores

----------------------------------------------------------------------------
(* Properties of the report, C6 - C10: coercion, shapes and failures *)

\* the amount of the one public record of raw
Amount == raw.f.search_results.f.publicRecords.a[1].f.amount

\* C6: safe_number gives null for null, "" and a value that is no number
\* ("abc"), the number for a number or numeric string ("375" gives 375.0), and
\* never raises to its caller
C6_SafeNumberNeverRaises ==
    raw \in AmountInputs /\ pc \in {"employers", "done", "raised"} =>
        /\ pc # "raised"
        /\ Amount \in {JNull, JStr(<<>>), JStr(<<"a", "b", "c">>)}
               => normalized.public_records[1].f.amount = JNull
        /\ Amount \in {JStr(<<"3", "7", "5">>), JInt(375)}
               => normalized.public_records[1].f.amount = JFloat(375)

\* C7: a field that may hold one object or an array of objects gives the same
\* report for a bare object X as for the one-element array [X]
C7_BareObjectAsOneElementList ==
    \A field \in ShapeFields :
        pc \in {"done", "raised"} /\ call = 1 /\ raw = ShapeInput(field, FALSE) =>
            LET g == normalize_report(ShapeInput(field, TRUE), given) IN
            /\ exc = g.exc
            /\ normalized = g.normalized

\* the endpoint keys missing from raw
Missing == EndpointKeys \ DOMAIN raw.f

\* C8: with any subset of the endpoint keys missing and any extra key,
\* normalize_report returns without raising; the collections fed only by
\* missing endpoints are empty, and personal_info is empty when
\* credit_report_json is missing
C8_MissingKeysDegrade ==
    /\ raw \in KeyInputs => pc # "raised"
    /\ pc = "done" /\ IsDict(raw) =>
        /\ "search_results" \in Missing => normalized.public_records = <<>>
        /\ "credit_report_json" \in Missing =>
               /\ normalized.personal_info = EmptyDict
               /\ normalized.employers = <<>>
        /\ {"trades", "credit_report_json"} \subseteq Missing
               => normalized.accounts = <<>>
        /\ {"search_results", "credit_report_json"} \subseteq Missing
               => normalized.inquiries = <<>>

\* the call has returned for a raw mapping with an unrecognized key and no
\* endpoint key other than trades
C8_Witness ==
    /\ pc = "done" /\ call = 1
    /\ raw \in KeyInputs
    /\ Missing = {"search_results", "credit_report_json"}
    /\ "statistics" \in DOMAIN raw.f
    /\ Len(normalized.accounts) = 1
    /\ normalized.inquiries = <<>>

\* C9: normalize_report never raises, whatever the shape of the values the
\* endpoint keys hold
C9_NeverRaises == pc # "raised"

\* rawReport is present and json.loads rejects it
RawReportUnparseable ==
    /\ IsDict(Get(raw, "credit_report_json"))
    /\ Truthy(Get(Get(raw, "credit_report_json"), "rawReport"))
    /\ IsRaise(json_loads(Get(Get(raw, "credit_report_json"), "rawReport")))

\* raw with the rawReport key of credit_report_json removed
WithoutRawReport ==
    LET cr == raw.f.credit_report_json.f IN
    JObj([raw.f EXCEPT !.credit_report_json =
              JObj([key \in DOMAIN cr \ {"rawReport"} |-> cr[key]])])

\* C10: with a rawReport that fails to parse, normalize_report returns the
\* report it returns for the same input without rawReport
C10_UnparseableAsAbsent ==
    pc \in {"done", "raised"} /\ call = 1 /\ IsDict(raw) /\ RawReportUnparseable =>
        /\ pc = "done"
        /\ normalized = normalize_report(WithoutRawReport, given).normalized

----------------------------------------------------------------------------
(* Properties of the report, C11 - C14: the account records *)

\* the number of accounts the trade list pass appended
PassOneCount == Len(TradeEntries)

\* the positions of the output accounts appended by the partition pass and
\* the bureau report pass
LaterPositions == (PassOneCount + 1)..Len(normalized.accounts)

\* the bureau report components of rawReport
BureauReports ==
    IF ~Truthy(raw_report_str) THEN <<>>
    ELSE SelectSeq(BureauComponentList(GetD(json_loads(raw_report_str),
                                            "BundleComponents", EmptyDict)).a,
                   LAMBDA comp : IsBureauReport(Get(comp, "Type")))

\* the keys of the accounts the bureau reports describe
BureauKeys ==
    UNION {{AccountKey(BureauCandidate(BureauTradelines(BureauReports[i]).a[n],
                                       BureauSymbol(Get(BureauReports[i], "Type"))).acct) :
               n \in 1..Len(BureauTradelines(BureauReports[i]).a)} :
           i \in 1..Len(BureauReports)}

\* raw holds a trade list and no tradeline in a bundle partition or bureau
\* report
TradeListAlone ==
    \/ raw \in TradeOnlyInputs
    \/ raw \in AccountInputs /\ PartitionKeys = {} /\ BureauKeys = {}

Twins ==
    {<<"account_number", "maskedAccountNumber">>, <<"account_type", "accountType">>,
     <<"status", "accountStatus">>, <<"open_date", "openDateFormatted">>,
     <<"closed_date", "dateClosed">>, <<"last_reported", "lastReported">>,
     <<"account_age", "accountAge">>}

\* a numeric field and the provider-named amount it is the value of
NumericTwins ==
    {<<"balance", "currentBalanceAmount">>, <<"credit_limit", "creditLimitAmount">>,
     <<"high_balance", "highCreditAmount">>, <<"payment_amount", "termsMonthlyPayment">>}

\* the number an emitted amount string stands for, null when it is no number
NumericValue(amount) ==
    IF IsStr(amount) /\ AllDigits(amount.s) THEN JFloat(DecimalValue(amount.s))
    ELSE JNull

\* C12: in every output account each snake-case field is present beside its
\* provider-named twin with the same value, and balance, credit_limit,
\* high_balance and payment_amount are the numeric values of
\* currentBalanceAmount, creditLimitAmount, highCreditAmount and
\* termsMonthlyPayment
C12_SnakeCaseTwins ==
    pc = "done" /\ raw \in AccountInputs \cup AmountAccountInputs =>
        \A i \in 1..Len(normalized.accounts) :
            LET a == normalized.accounts[i].f IN
            /\ \A t \in Twins :
                  /\ t[1] \in DOMAIN a
                  /\ t[2] \in DOMAIN a
                  /\ a[t[1]] = a[t[2]]
            /\ \A t \in NumericTwins :
                  /\ t[1] \in DOMAIN a
                  /\ t[2] \in DOMAIN a
                  /\ a[t[1]] = NumericValue(a[t[2]])

\* the numeric fields of an account, and those a pass fills
NumericFields == {"balance", "credit_limit", "high_balance", "payment_amount"}

FilledBy(pass) ==
    IF pass = "trades" THEN NumericFields ELSE NumericFields \ {"payment_amount"}

NoAmount == {JNull, JStr(<<>>), JStr(<<"a", "b", "c">>)}

ZeroAmount == {JInt(0), JFloat(0), Chars("0")}

\* C13: a numeric field of an account is null only when the source amount is
\* absent, empty or no number; a source amount of zero (0, 0.0, "0") is
\* emitted as 0.0 and an unparseable amount as null
C13_ZeroIsNotNull ==
    \A pass \in Passes : \A v \in AccountAmounts :
        pc = "done" /\ raw = AmountAccountInput(pass, v) =>
            /\ Len(normalized.accounts) = 1
            /\ \A field \in FilledBy(pass) :
                  LET out == normalized.accounts[1].f[field] IN
                  /\ out = JNull => v \in NoAmount
                  /\ v \in ZeroAmount => out = JFloat(0)
                  /\ v \in NoAmount => out = JNull

\* C14: every account appended by the partition pass or the bureau report
\* pass has a non-null institution.name and a non-null maskedAccountNumber
C14_LaterAccountsAreResolved ==
    pc = "done" /\ raw \in AccountInputs \cup CandidateInputs =>
        \A i \in LaterPositions :
            /\ normalized.accounts[i].f.institution.f.name # JNull
            /\ normalized.accounts[i].f.maskedAccountNumber # JNull

----------------------------------------------------------------------------
(* Properties of the report, C15 - C19: duplicates, candidates and dates *)

\* a key with an account number and a creditor name
Resolved(key) == key[1] # JNull /\ key[2] # JNull

\* C15: a candidate of the partition pass or the bureau report pass that has
\* a creditor name and an account number and differs from every accumulated
\* entry in some part of the key (number, name, bureau) is appended: every
\* such candidate key is the key of an output account
C15_PartialMatchesCoexist ==
    pc = "done" /\ raw \in AccountInputs =>
        \A key \in PartitionKeys \cup BureauKeys :
            Resolved(key) => WithKey(key) # {}

\* C16: an account appended by the partition pass or the bureau report pass
\* has a key (number, name and bureau as emitted, trimmed and stringified)
\* that no earlier output account has
C16_DuplicateAfterTrimming ==
    pc = "done" /\ raw \in AccountInputs =>
        \A j \in LaterPositions : \A i \in 1..(j - 1) :
            AccountKey(normalized.accounts[i]) # AccountKey(normalized.accounts[j])

\* the first of two candidate values that is present, non-null and not ""
FirstPresent(v, later) == IF v # JNull /\ v # JStr(<<>>) THEN v ELSE later

\* the string an account carries for a candidate value
Emitted(v) == IF v = JInt(0) THEN Chars("0") ELSE v

\* C17: a field resolved from an ordered list of candidate keys takes the
\* value of the first candidate that is present, non-null and not the empty
\* string; a numeric 0 under the first candidate is not skipped
C17_FirstPresentCandidateWins ==
    \A pass \in LaterPasses : \A v \in FirstValues :
        pc = "done" /\ raw = CandidateInput(pass, v) =>
            /\ Len(normalized.accounts) = 1
            /\ LET a == normalized.accounts[1].f IN
               /\ a.institution.f.name = Emitted(FirstPresent(v, Chars("s")))
               /\ a.maskedAccountNumber = Emitted(FirstPresent(v, Chars("2")))
               /\ a.accountType = Emitted(FirstPresent(v, Chars("6")))
               /\ pass = "partition" =>
                      a.currentBalanceAmount = Emitted(FirstPresent(v, Chars("5")))

\* the fields only the trade list pass can supply
TradeOnlyFields ==
    {"times30Late", "times60Late", "times90Late", "paymentHistory", "memberCode",
     "termsMonthlyPayment", "payment_amount", "lastReported", "last_reported",
     "accountAge", "account_age"}

\* C18: every output account carries the same set of field names whichever
\* pass built it, and a field its pass cannot supply is present
C18_SameFieldNames ==
    pc = "done" /\ raw \in AccountInputs =>
        /\ \A i, j \in 1..Len(normalized.accounts) :
              DOMAIN normalized.accounts[i].f = DOMAIN normalized.accounts[j].f
        /\ \A i \in 1..Len(normalized.accounts) :
              TradeOnlyFields \subseteq DOMAIN normalized.accounts[i].f

\* C19: an account of the partition pass or the bureau report pass carries an
\* ISO open or close date YYYY-MM-DD as "Mon DD, YYYY", and a date string that
\* cannot be reformatted unchanged, never null
C19_DatesReadable ==
    \A pass \in LaterPasses : \A d \in DateValues :
        pc = "done" /\ raw = DateInput(pass, d) =>
            /\ Len(normalized.accounts) = 1
            /\ \A field \in {"openDateFormatted", "open_date", "dateClosed",
                             "closed_date"} :
                  LET out == normalized.accounts[1].f[field] IN
                  /\ out # JNull
                  /\ d = JStr(IsoDate) => out = JStr(ReadableDate)
                  /\ d \in {JStr(NoSuchDate), JStr(ReadableDate)} => out = d

----------------------------------------------------------------------------
(* Properties of the report, C20: inquiries and employers *)

\* the entries of search_results.inquiries
SearchInquiries ==
    Iter(WrapDict(GetD(Or(Get(raw, "search_results"), EmptyDict),
                       "inquiries", EmptyList))).a

\* the Inquiry of each InquiryPartition item that holds a non-empty one
PartitionInquiries ==
    IF Truthy(true_link)
    THEN LET items == Iter(WrapDict(GetD(true_link, "InquiryPartition",
                                         EmptyList))).a
             held == SelectSeq(items,
                         LAMBDA item : Truthy(GetD(item, "Inquiry", EmptyDict)))
         IN [i \in 1..Len(held) |-> held[i].f.Inquiry]
    ELSE <<>>

\* the Inquiry and Employer entries of the located borrower
BorrowerInquiries ==
    IF Truthy(borrower) THEN Iter(WrapDict(GetD(borrower, "Inquiry", EmptyList))).a
    ELSE <<>>

BorrowerEmployers ==
    IF Truthy(borrower) THEN Iter(WrapDict(GetD(borrower, "Employer", EmptyList))).a
    ELSE <<>>

\* the Employer entries of Borrower in the outer document
OuterEmployers ==
    Iter(WrapDict(GetD(Or(Get(cr_json, "Borrower"), EmptyDict),
                       "Employer", EmptyList))).a

\* the record of an inquiry entry that names its bureau
InquiryRecord(e) ==
    JObj([bureau |-> e.f.bureau, business_name |-> e.f.subscriberName,
          inquiry_date |-> e.f.inquiryDate, type |-> e.f.inquiryType])

\* the record of an employer entry without bureau
EmployerRecord(e) ==
    JObj([name |-> e.f.name,
          date_reported |-> IF "dateReported" \in DOMAIN e.f THEN e.f.dateReported
                            ELSE e.f.dateUpdated,
          bureau |-> JNull])

\* C20: inquiries and employers are never deduplicated: the output holds one
\* inquiry per entry of search_results.inquiries, per InquiryPartition item
\* with a non-empty Inquiry and per borrower Inquiry entry, and one employer
\* per borrower Employer entry and per Borrower.Employer entry of the outer
\* document, equal records of different sources included, in source order
C20_NothingDeduplicated ==
    pc = "done" =>
        /\ Len(normalized.inquiries) =
               Len(SearchInquiries) + Len(PartitionInquiries) + Len(BorrowerInquiries)
        /\ Len(normalized.employers) = Len(BorrowerEmployers) + Len(OuterEmployers)
        /\ raw \in InquiryInputs =>
               normalized.inquiries =
                   [i \in 1..Len(SearchInquiries) |-> InquiryRecord(SearchInquiries[i])]
                   \o [i \in 1..Len(PartitionInquiries) |->
                          InquiryRecord(PartitionInquiries[i])]
                   \o [i \in 1..Len(BorrowerInquiries) |->
                          InquiryRecord(BorrowerInquiries[i])]
        /\ raw \in EmployerInputs =>
               normalized.employers =
                   [i \in 1..Len(BorrowerEmployers) |-> EmployerRecord(BorrowerEmployers[i])]
                   \o [i \in 1..Len(OuterEmployers) |-> EmployerRecord(OuterEmployers[i])]

\* the call has returned with the same inquiry record from the search
\* results, from a partition item and twice from the borrower, and the same
\* employer record from the borrower and from the outer document
C20_Witness ==
    /\ pc = "done" /\ call = 1
    /\ raw \in InquiryInputs
    /\ SearchInquiries = <<SourcedInquiry, OtherInquiry>>
    /\ Len(PartitionInquiries) = 1
    /\ Len(true_link.f.InquiryPartition.a) = 2
    /\ Len(BorrowerInquiries) = 2
    /\ Len(normalized.inquiries) = 5
    /\ \A i \in {1, 3, 4, 5} : normalized.inquiries[i] = InquiryRecord(SourcedInquiry)
    /\ normalized.employers = <<EmployerRecord(EmployerEntry), EmployerRecord(EmployerEntry)>>

----------------------------------------------------------------------------
(* Properties of the report, C21 - C22: the person's name and the borrower *)

\* the Name array of the located borrower
NameArray == GetD(borrower, "Name", EmptyList).a

\* the positions of the Name array marked primary
PrimaryPositions ==
    {i \in 1..Len(NameArray) :
        Get(GetD(NameArray[i], "NameType", EmptyDict), "abbreviation") = JStr(Primary)}

\* the first element marked primary, or the first element when none is marked
ChosenName ==
    IF PrimaryPositions = {} THEN NameArray[1]
    ELSE NameArray[CHOOSE i \in PrimaryPositions : \A j \in PrimaryPositions : i <= j]

\* the name parts of an element that are not empty, joined by spaces; null
\* when there is none
Composed(element) ==
    LET name_data == GetD(element, "Name", EmptyDict)
        parts == SelectSeq(<<Get(name_data, "first"), Get(name_data, "middle"),
                             Get(name_data, "last")>>,
                           LAMBDA part : part # JNull /\ part # JStr(<<>>))
    IN IF parts = <<>> THEN JNull ELSE Join(<<" ">>, parts)

\* C21: a borrower without BorrowerName that carries a Name array gets the
\* name composed from the first element marked "Primary", and from the first
\* element when no element is marked primary
C21_NameFromPrimaryElement ==
    pc = "done" /\ raw \in NameInputs /\ NameArray # <<>> =>
        normalized.personal_info.f.name = Composed(ChosenName)

\* the personal_info built from one borrower block with these three fields
InfoOf(name, ssn, birth) ==
    JObj([name |-> name, ssn |-> ssn, dateOfBirth |-> birth, address |-> JNull,
          previous_addresses |-> JArr(<<>>)])

\* the bundle holds the merged report with the borrower b
HoldsBorrower(bundle, b) == bundle = Held(<<MergeComp(JObj([Borrower |-> b]))>>)

\* C22: personal_info is built from exactly one borrower block: the borrower
\* of rawReport when rawReport yields one, the borrower of the outer document
\* only when rawReport yields none; fields of the two are never mixed
C22_OneBorrowerBlock ==
    \A inner \in BorrowerBundles(InnerBorrower) :
        \A outer \in BorrowerBundles(OuterBorrower) :
            pc = "done" /\ raw = BorrowerInput(inner, outer) =>
                normalized.personal_info =
                    IF HoldsBorrower(inner, InnerBorrower)
                    THEN InfoOf(Chars("n"), Chars("9"), JNull)
                    ELSE IF HoldsBorrower(outer, OuterBorrower)
                    THEN InfoOf(Chars("m"), Chars("8"), Chars("d"))
                    ELSE EmptyDict

\* the call has returned for a report with one borrower in rawReport and
\* another in the outer document, and personal_info is that of rawReport
C22_Witness ==
    /\ pc = "done"
    /\ raw = BorrowerInput(Held(<<MergeComp(JObj([Borrower |-> InnerBorrower]))>>),
                           Held(<<MergeComp(JObj([Borrower |-> OuterBorrower]))>>))
    /\ borrower = InnerBorrower
    /\ normalized.personal_info = InfoOf(Chars("n"), Chars("9"), JNull)

\* the call has returned for a report whose rawReport holds a merged report
\* with an empty borrower, and personal_info is that of the outer document
C22_FallbackWitness ==
    /\ pc = "done"
    /\ raw = BorrowerInput(Held(<<MergeComp(JObj([Borrower |-> EmptyDict]))>>),
                           Held(<<MergeComp(JObj([Borrower |-> OuterBorrower]))>>))
    /\ borrower = OuterBorrower
    /\ normalized.personal_info = InfoOf(Chars("m"), Chars("8"), Chars("d"))

----------------------------------------------------------------------------
(* Properties of the report, C23 - C26: arguments, components, accounts, scores *)

\* C23: normalize_report leaves its arguments as the caller passed them, also
\* when the raw documents hold structured scores: the scoreOverride object
\* has after the call the keys and values it had before (raw is written by no
\* step of the call)
C23_ArgumentsUnchanged ==
    pc = "done" /\ call = 1 => scores = given

\* C24: the component list the navigator locates serves score extraction and
\* account extraction alike: wherever the bundle is held, its typed score
\* component gives the TransUnion score and its per-bureau report component
\* gives the account
C24_ComponentsServeBoth ==
    \A where \in Places :
        pc = "done" /\ call = 1 /\ given = JNull /\ raw = PlacementInput(where) =>
            /\ HasKey(normalized.scores, TransUnion)
            /\ WithKey(<<Chars("3"), Chars("c"), JStr(EXP)>>) # {}

\* the accounts before a step are the first accounts after it, unchanged
IsPrefix(before, after) ==
    /\ Len(before) <= Len(after)
    /\ SubSeq(after, 1, Len(before)) = before

\* the accounts a step added behind those it found
Added(before, after) == SubSeq(after, Len(before) + 1, Len(after))

\* the accounts the bundle partition can give
PartitionAccountsOffered ==
    LET items == Iter(WrapDict(GetD(true_link, "TradeLinePartition", EmptyList))).a
    IN UNION {{TradelineCandidate(Tradelines(items[i]).a[n], items[i]).acct :
                  n \in 1..Len(Tradelines(items[i]).a)} : i \in 1..Len(items)}

\* the accounts the bureau reports can give
BureauAccountsOffered ==
    UNION {{BureauCandidate(BureauTradelines(BureauReports[i]).a[n],
                            BureauSymbol(Get(BureauReports[i], "Type"))).acct :
               n \in 1..Len(BureauTradelines(BureauReports[i]).a)} :
           i \in 1..Len(BureauReports)}

\* C25: the accounts sequence is append-only across the three passes: every
\* step after the first keeps the accounts it found, in place and unmodified,
\* and adds behind them; the trade list pass adds the trade-list accounts in
\* input order, the partition pass only accounts of the bundle partition, the
\* bureau report pass only accounts of the bureau reports, and no other step
\* adds any
C25_AccountsAppendOnly ==
    [][pc # "begin" /\ pc' # "begin" =>
          /\ IsPrefix(normalized.accounts, normalized'.accounts)
          /\ pc = "trades" /\ pc' = "partition" /\ raw \in AccountInputs =>
                 normalized'.accounts =
                     [i \in 1..Len(TradeEntries) |-> TradeAccount(TradeEntries[i])]
          /\ pc = "partition" /\ raw \in AccountInputs =>
                 \A i \in DOMAIN Added(normalized.accounts, normalized'.accounts) :
                     Added(normalized.accounts, normalized'.accounts)[i]
                         \in PartitionAccountsOffered
          /\ pc = "bureau" /\ raw \in AccountInputs =>
                 \A i \in DOMAIN Added(normalized.accounts, normalized'.accounts) :
                     Added(normalized.accounts, normalized'.accounts)[i]
                         \in BureauAccountsOffered
          /\ pc \notin {"trades", "partition", "bureau"} =>
                 normalized'.accounts = normalized.accounts]_vars

\* the call has returned with two trade-list accounts, then an account of the
\* bundle partition, then an account of a bureau report
C25_Witness ==
    /\ pc = "done" /\ call = 1
    /\ raw \in AccountInputs
    /\ Len(TradeEntries) = 2
    /\ Len(normalized.accounts) = 4
    /\ normalized.accounts[1] = TradeAccount(TradeEntries[1])
    /\ normalized.accounts[2] = TradeAccount(TradeEntries[2])
    /\ normalized.accounts[3] \in PartitionAccountsOffered
    /\ normalized.accounts[4] \in BureauAccountsOffered
    /\ normalized.accounts[4] \notin PartitionAccountsOffered

\* the keys of the scoreOverride the caller passed
GivenKeys == IF OverrideTruthy(given) THEN Keys(given) ELSE {}

\* the bureau key of the first of TUC, EQF, EXP that the type names
TokenKey(type) ==
    IF Contains(type, TUC) THEN TransUnion
    ELSE IF Contains(type, EQF) THEN Equifax
    ELSE Experian

NamesToken(type) == Contains(type, TUC) \/ Contains(type, EQF) \/ Contains(type, EXP)

\* the scores a call without scoreOverride returns for one structured score
OneScore(type, v) ==
    IF NamesToken(type) /\ v \notin {JNull, JStr(<<>>)}
    THEN ODict(<<[key |-> TokenKey(type), val |-> v]>>)
    ELSE ODict(<<>>)

\* C26: every key of the output scores is a key of the scoreOverride or one
\* of TransUnion, Equifax, Experian; a structured score is written under the
\* key of the first of the tokens TUC, EQF, EXP its bureau marker names, and
\* is not written when its value is missing or empty
C26_ScoreKeysAndPrecedence ==
    pc = "done" /\ call = 1 =>
        /\ Keys(normalized.scores) \subseteq GivenKeys \cup {TransUnion, Equifax, Experian}
        /\ \A key \in Keys(normalized.scores) :
              \/ Lookup(normalized.scores, key) \notin {JNull, JStr(<<>>)}
              \/ key \in GivenKeys
        /\ \A type \in TokenTypes : \A v \in TokenValues :
              given = JNull /\ raw = TokenInput(type, v) =>
                  normalized.scores = OneScore(type, v)
        /\ \A sym \in {TUC, EQF, EXP, Other} : \A v \in TokenValues :
              given = JNull /\ raw = SymbolInput(sym, v) =>
                  normalized.scores = OneScore(sym, v)
        /\ \A type \in TokenTypes :
              given = OneOverride /\ raw = TokenInput(type, JStr(<<>>)) =>
                  normalized.scores = OneOverride

\* the call has returned for a component whose type names EQF before TUC, and
\* the score stands under TransUnion
C26_Witness ==
    /\ pc = "done" /\ call = 1
    /\ given = JNull
    /\ raw = TokenInput(EQF \o TUC, Chars("3"))
    /\ normalized.scores = ODict(<<[key |-> TransUnion, val |-> Chars("3")]>>)

----------------------------------------------------------------------------
(* Properties of main(), C27 - C29 *)

\* C27: when waiting for the dashboard URL fails, the browser is closed and
\* main() has returned, no endpoint was or will be requested, normalize_report
\* is not called, and neither the normalized JSON nor a CSV file is written
C27_FailedLoginWritesNothing ==
    landed = "no" =>
        /\ at = "returned"
        /\ browser = "closed"
        /\ requested = <<>>
        /\ aggregated = EmptyDict
        /\ pc = "idle" /\ call = 0
        /\ normalized = JNull
        /\ files = <<>>

\* the wait for the dashboard URL has failed and main() has returned
C27_Witness ==
    /\ landed = "no"
    /\ at = "returned"
    /\ browser = "closed"
    /\ files = <<>>

\* the entry the fetch loop stores for a request that gave no JSON document
IsErrorEntry(v) ==
    /\ IsDict(v)
    /\ DOMAIN v.f \in {{"__raw_text"}, {"__http_status", "__error"},
                       {"__error_exception"}}

\* the endpoint keys requested so far are the first keys of ENDPOINTS
FetchedInOrder ==
    /\ Len(requested) <= Len(ENDPOINTS)
    /\ requested = SubSeq(ENDPOINTS, 1, Len(requested))
    /\ DOMAIN aggregated.f = {requested[i] : i \in 1..Len(requested)}

\* C28: once the fetch loop has finished, aggregated holds exactly one entry
\* for each of the four ENDPOINTS keys whatever each request came to; the
\* loop goes on to the next endpoint after every outcome; and normalize_report
\* of a mapping with error entries returns, with the collections of an error
\* entry's endpoint empty
C28_EveryEndpointHasAnEntry ==
    landed = "yes" =>
        /\ FetchedInOrder
        /\ at \notin {"fetch", "wait", "login", "launch"} => requested = ENDPOINTS
        /\ pc \in {"done", "raised"} =>
              /\ IsErrorEntry(raw.f.trades) /\ IsErrorEntry(raw.f.credit_report_json) =>
                     pc = "done" /\ normalized.accounts = <<>>
              /\ IsErrorEntry(raw.f.trades) /\ pc = "done" =>
                     \A i \in 1..Len(normalized.accounts) :
                         normalized.accounts[i] \in
                             PartitionAccountsOffered \cup BureauAccountsOffered
              /\ IsErrorEntry(raw.f.search_results) /\ pc = "done" =>
                     normalized.public_records = <<>>
              /\ IsErrorEntry(raw.f.search_results)
                 /\ IsErrorEntry(raw.f.credit_report_json) =>
                     normalized.inquiries = <<>>
              /\ IsErrorEntry(raw.f.credit_report_json) =>
                     /\ pc = "done"
                     /\ normalized.personal_info = EmptyDict
                     /\ normalized.employers = <<>>

\* the first request raised, the second was not ok, the third gave no JSON,
\* the fourth answered with a report; all four have an entry and
\* normalize_report has returned without trade-list accounts
C28_Witness ==
    /\ landed = "yes"
    /\ pc = "done"
    /\ DOMAIN aggregated.f = {"search_results", "statistics", "trades",
                              "credit_report_json"}
    /\ aggregated.f.search_results = JObj(K("__error_exception", ErrorText))
    /\ DOMAIN aggregated.f.statistics.f = {"__http_status", "__error"}
    /\ aggregated.f.trades = JObj(K("__raw_text", BodyText))
    /\ aggregated.f.credit_report_json = JObj(K("rawReport", JsonText(Doc(FullBundle))))
    /\ Len(normalized.accounts) = 2
    /\ normalized.public_records = <<>>

\* C29: the scores CSV holds the scores of the normalized report: it is
\* written exactly when the report's scores are not empty, with the same
\* bureau keys and values, also when scraping failed and the scores come from
\* the credit report documents
C29_ScoresCsvIsReportScores ==
    at = "returned" /\ landed = "yes" =>
        /\ SCORES_CSV \in DOMAIN files <=> normalized.scores.items # <<>>
        /\ SCORES_CSV \in DOMAIN files => files[SCORES_CSV] = normalized.scores

----------------------------------------------------------------------------
(* Equivalence of the two normalize_report functions, C30 *)

\* raw has no credit_report_json, or an empty one
NoCreditReport ==
    \/ "credit_report_json" \notin DOMAIN raw.f
    \/ raw.f.credit_report_json = EmptyDict

\* C30: for raw documents whose credit_report_json is absent or empty,
\* normalize_report of main.py and normalize_report of main_fixed.py return
\* equal reports: the same accounts in the same order, the same inquiries,
\* public records, employers and scores, and an empty personal_info; and when
\* one raises, the other raises the same exception
C30_SameReportWithoutCreditReport ==
    fixed # JNull /\ NoCreditReport =>
        /\ fixed.exc = exc
        /\ pc = "done" =>
              /\ fixed.normalized = normalized
              /\ normalized.personal_info = EmptyDict

\* both functions have returned for raw documents with an empty
\* credit_report_json, two trades, two inquiries and a public record, called
\* with a scoreOverride
C30_Witness ==
    /\ fixed # JNull /\ pc = "done"
    /\ "credit_report_json" \in DOMAIN raw.f
    /\ raw.f.credit_report_json = EmptyDict
    /\ OverrideTruthy(given)
    /\ Len(normalized.accounts) = 2
    /\ Len(normalized.inquiries) = 2
    /\ Len(normalized.public_records) = 1
    /\ fixed.normalized = normalized

====
